---- MODULE Spec2Model ----
(***************************************************************************)
(* A model of tyyzqmf/stack-workflow: the action lambda (stack lifecycle   *)
(* controller), the action state machine that drives it, the workflow      *)
(* lambda (workflow interpreter) and the workflow state machine that       *)
(* re-invokes the interpreter through CallSelf executions.                 *)
(*                                                                         *)
(* Strings the code inspects (endsWith, includes) are sequences of tokens, *)
(* so that the inspection is computed; strings the code only copies or     *)
(* compares are TLA+ strings.                                              *)
(***************************************************************************)
EXTENDS Naturals, Sequences, FiniteSets, TLC

(***************************************************************************)
(* Values                                                                  *)
(***************************************************************************)
\* JavaScript undefined, for a string-valued field
UNDEF == "<undefined>"
\* JavaScript undefined, for a field holding an inspected string
UNDEFSTR == <<UNDEF>>
\* an absent object (event.Result, a stack the provider does not have)
NoObject == [absent |-> TRUE]

\* JavaScript truthiness of a string-valued field: !x is true for undefined and ''
Truthy(x) == x # UNDEF /\ x # ""

\* String.prototype.endsWith on token sequences (undefined?.endsWith is falsy)
EndsWith(s, suffix) ==
  /\ s # UNDEFSTR
  /\ Len(s) >= Len(suffix)
  /\ SubSeq(s, Len(s) - Len(suffix) + 1, Len(s)) = suffix

\* String.prototype.includes on token sequences
Includes(s, needle) ==
  \E i \in 1..(Len(s) + 1) :
     /\ i + Len(needle) - 1 <= Len(s)
     /\ SubSeq(s, i, i + Len(needle) - 1) = needle

\* StackStatus values of the provider, as '_'-separated tokens
St(op, phase) == <<op, "_">> \o phase
IN_PROGRESS == <<"IN", "_", "PROGRESS">>
COMPLETE == <<"COMPLETE">>
FAILED == <<"FAILED">>
ROLLBACK_COMPLETE == <<"ROLLBACK", "_", "COMPLETE">>
ROLLBACK_FAILED == <<"ROLLBACK", "_", "FAILED">>
CREATE_IN_PROGRESS == St("CREATE", IN_PROGRESS)
CREATE_COMPLETE == St("CREATE", COMPLETE)
CREATE_FAILED == St("CREATE", FAILED)
UPDATE_IN_PROGRESS == St("UPDATE", IN_PROGRESS)
UPDATE_COMPLETE == St("UPDATE", COMPLETE)
UPDATE_FAILED == St("UPDATE", FAILED)
UPDATE_ROLLBACK_COMPLETE == St("UPDATE", ROLLBACK_COMPLETE)
UPDATE_ROLLBACK_FAILED == St("UPDATE", ROLLBACK_FAILED)
DELETE_IN_PROGRESS == St("DELETE", IN_PROGRESS)
DELETE_COMPLETE == St("DELETE", COMPLETE)
DELETE_FAILED == St("DELETE", FAILED)

\* the suffixes the code tests for
SUFFIX_IN_PROGRESS == <<"_">> \o IN_PROGRESS
SUFFIX_FAILED == FAILED

\* error messages
MSG_ROLLBACK == <<"please use the disable-rollback parameter with update-stack API">>
MSG_BUCKET == <<"Callback bucket name or execution name is undefined.">>
MSG_NO_RESULT == <<"Stack result is undefined.">>
MSG_STACK_FAILED == <<"Stack failed.">>
MSG_DESCRIBE_FAILED == <<"Describe Stack failed.">>
MSG_ACTION_TYPE == <<"Action type error">>
MSG_NO_DATA == <<"Stack data is undefined.">>
MSG_NO_INPUT == <<"Origin input is undefined.">>
MSG_NO_BRANCHES == <<"Branches is undefined.">>
MSG_TYPE_ERROR == <<"TypeError">>
MSG_WORKFLOW_FAILED == <<"Stack workflow input failed.">>
MSG_S3 == <<"S3 service error">>
MSG_REASON == <<"mock failed reason">>

(***************************************************************************)
(* Bounds                                                                  *)
(***************************************************************************)
\* provider update calls explored in one Update/Upgrade invocation
MaxUpdateCalls == 3
\* passes through 'Wait 15 Seconds' explored in one run of the action state machine
MaxPolls == 2
\* runs of the action state machine explored for one request
MaxRuns == 2
\* turns of the loop of serial explored in one invocation
MaxVisits == 4
\* executions of the workflow state machine explored in one logical run
MaxExecutions == 8

(***************************************************************************)
(* State                                                                   *)
(***************************************************************************)
VARIABLES
  \* --- the provider and the Output Store -------------------------------
  cfn,        \* the stack as the provisioning API holds it, or NoObject
  store,      \* the Output Store: key -> body
  \* --- one run of the action state machine ------------------------------
  bucket,     \* CALLBACK_BUCKET_NAME of the action function's process
  sm,         \* the state of the action state machine the run is in
  ev,         \* the state machine's current JSON document ($)
  ev0,        \* the document the run was started with
  hpc,        \* position inside the running handler: "idle" or "doUpdate"
  updInput,   \* the UpdateStackCommandInput doUpdate is working on
  log,        \* the provider and store calls issued in this run, in order
  waits,      \* passes through 'Wait 15 Seconds' in this run
  runs,       \* runs started so far with the same document
  outcome,    \* "running", "succeeded" (EndState) or "failed" (a task threw)
  error,      \* the message of the error that failed the run
  \* --- invocations of the workflow lambda -------------------------------
  wbucket,    \* CALLBACK_BUCKET_NAME of the workflow function's process
  winputs,    \* the events still to be handled, in order
  wevent,     \* the event of the invocation in hand
  wpc,        \* "start", "serial" (inside serial's loop) or "done"
  wstates,    \* serial: branch.States, with the stamps put so far
  wkey,       \* serial: currentKey
  wdata,      \* serial: data
  wresults,   \* what the finished invocations came to, in order
  wlog,       \* the provider and store calls the workflow lambda issued
  \* --- executions of the workflow state machine -------------------------
  dexecs,     \* the executions started so far, the root first
  ddispatched \* the inputs StackExecution started the action state machine with

actionVars == <<cfn, store, bucket, sm, ev, ev0, hpc, updInput, log, waits, runs, outcome, error>>
workflowVars == <<wbucket, winputs, wevent, wpc, wstates, wkey, wdata, wresults, wlog>>
driverVars == <<dexecs, ddispatched>>
vars == <<actionVars, workflowVars, driverVars>>

(***************************************************************************)
(* The action lambda                                                       *)
(***************************************************************************)
\* the StackInput of the request the run is about
TheInput ==
  [Region |-> "r1", StackName |-> "S1", TemplateURL |-> "tpl",
   Parameters |-> <<>>, Tags |-> <<>>]

TheStackId == "arn:S1"

\* a Stack as DescribeStacks returns it; Outputs is a list of
\* [OutputKey, OutputValue], both token sequences
StackRec(id, name, status, reason) ==
  [StackId |-> id, StackName |-> name, StackStatus |-> status,
   StackStatusReason |-> reason, Outputs |-> <<>>]

\* the outputs the template of the request's stack declares
TheOutputs ==
  <<[OutputKey |-> <<"S1", "Table", "Name">>, OutputValue |-> <<"t-1">>],
    [OutputKey |-> <<"S1", "Queue", "Name">>, OutputValue |-> <<"q-123">>]>>

WithOutputs(stack, outputs) == [stack EXCEPT !.Outputs = outputs]

(***************************************************************************)
(* JSON documents: what JSON.stringify writes and JSON.parse reads back    *)
(***************************************************************************)
JStr(x) == [t |-> "string", v |-> x]
JArr(xs) == [t |-> "array", v |-> xs]
JObj(f) == [t |-> "object", v |-> f]
\* a body that is not JSON
JGarbage == [t |-> "garbage", v |-> <<>>]

OutputJson(o) ==
  JObj([k \in {"OutputKey"} \cup (IF o.OutputValue # UNDEFSTR THEN {"OutputValue"} ELSE {}) |->
          IF k = "OutputKey" THEN JStr(o.OutputKey) ELSE JStr(o.OutputValue)])

\* JSON.stringify of a Stack: a property that is undefined is left out
StackJson(r) ==
  JObj([k \in {"StackName", "Outputs"}
              \cup (IF r.StackId # UNDEF THEN {"StackId"} ELSE {})
              \cup (IF r.StackStatus # UNDEFSTR THEN {"StackStatus"} ELSE {})
              \cup (IF r.StackStatusReason # UNDEFSTR THEN {"StackStatusReason"} ELSE {}) |->
          CASE k = "StackName" -> JStr(r.StackName)
            [] k = "StackId" -> JStr(r.StackId)
            [] k = "StackStatus" -> JStr(r.StackStatus)
            [] k = "StackStatusReason" -> JStr(r.StackStatusReason)
            [] k = "Outputs" -> JArr([i \in DOMAIN r.Outputs |-> OutputJson(r.Outputs[i])])])

\* what a handler invocation comes to: a returned event or a thrown error,
\* with the calls it issued on the way
Return(event, effects) ==
  [failed |-> FALSE, ret |-> event, err |-> <<>>, effects |-> effects]
Throw(message, effects) ==
  [failed |-> TRUE, ret |-> NoObject, err |-> message, effects |-> effects]

\* provider responses
Resolved(value) == [ok |-> TRUE, value |-> value, err |-> NoObject]
Described(stacks) == [ok |-> TRUE, hasStacks |-> TRUE, Stacks |-> stacks, err |-> NoObject]
Rejected(e) == [ok |-> FALSE, value |-> NoObject, err |-> e]
ServiceError(isCfn, name, message) == [cfnException |-> isCfn, name |-> name, message |-> message]

ERR_NOT_EXIST == ServiceError(TRUE, "ValidationError", <<"Stack does not exist">>)
ERR_THROTTLING == ServiceError(TRUE, "Throttling", <<"Rate exceeded">>)
ERR_EXISTS == ServiceError(TRUE, "AlreadyExistsException", <<"Stack already exists">>)
ERR_ROLLBACK ==
  ServiceError(TRUE, "ValidationError", <<"Stack is in UPDATE_FAILED state; ">> \o MSG_ROLLBACK)
ERR_NO_UPDATES == ServiceError(TRUE, "ValidationError", <<"No updates are to be performed.">>)
ERR_OTHER_NAME == ServiceError(TRUE, "InsufficientCapabilitiesException", MSG_ROLLBACK)
ERR_NOT_CFN == ServiceError(FALSE, "ValidationError", MSG_ROLLBACK)

\* describe: the stack, or undefined when the call fails or returns no Stacks
action_describe(resp) ==
  IF resp.ok
  THEN IF resp.hasStacks /\ Len(resp.Stacks) > 0 THEN resp.Stacks[1] ELSE NoObject
  ELSE NoObject

\* a call as the run's log keeps it: the request, whether it was accepted, and
\* the error it was rejected with
Call(request, resp) == [ok |-> resp.ok, err |-> resp.err] @@ request

DescribeCall(target, resp) == Call([op |-> "DescribeStacks", StackName |-> target], resp)

\* the name Describe and Delete look the stack up by
\* a lookup that always goes by the stack's name
LookupNameMutByName(event) == event.Input.StackName

LookupName(event) ==
  IF event.Result # NoObject /\ Truthy(event.Result.StackId)
  THEN event.Result.StackId
  ELSE event.Input.StackName

\* a createStack that leaves rollback and termination protection on
createStackMutProtected(event, resp) ==
  LET call == Call([op |-> "CreateStack",
                    StackName |-> event.Input.StackName,
                    TemplateURL |-> event.Input.TemplateURL,
                    Parameters |-> event.Input.Parameters,
                    DisableRollback |-> FALSE,
                    EnableTerminationProtection |-> TRUE,
                    Tags |-> event.Input.Tags], resp)
  IN IF resp.ok
     THEN Return([Action |-> "Describe",
                  Input |-> event.Input,
                  ExecutionName |-> event.ExecutionName,
                  Result |-> StackRec(resp.value, event.Input.StackName,
                                      CREATE_IN_PROGRESS, UNDEFSTR)],
                 <<call>>)
     ELSE Throw(resp.err.message, <<call>>)

createStack(event, resp) ==
  LET call == Call([op |-> "CreateStack",
                    StackName |-> event.Input.StackName,
                    TemplateURL |-> event.Input.TemplateURL,
                    Parameters |-> event.Input.Parameters,
                    DisableRollback |-> TRUE,
                    EnableTerminationProtection |-> FALSE,
                    Tags |-> event.Input.Tags], resp)
  IN IF resp.ok
     THEN Return([Action |-> "Describe",
                  Input |-> event.Input,
                  ExecutionName |-> event.ExecutionName,
                  Result |-> StackRec(resp.value, event.Input.StackName,
                                      CREATE_IN_PROGRESS, UNDEFSTR)],
                 <<call>>)
     ELSE Throw(resp.err.message, <<call>>)

\* the request updateStack hands to doUpdate
updateStackInput(event) ==
  [op |-> "UpdateStack",
   StackName |-> event.Input.StackName,
   TemplateURL |-> UNDEF,
   Parameters |-> event.Input.Parameters,
   DisableRollback |-> FALSE,
   UsePreviousTemplate |-> TRUE,
   Tags |-> event.Input.Tags]

\* the request upgradeStack hands to doUpdate
upgradeStackInput(event) ==
  [op |-> "UpdateStack",
   StackName |-> event.Input.StackName,
   TemplateURL |-> event.Input.TemplateURL,
   Parameters |-> event.Input.Parameters,
   DisableRollback |-> FALSE,
   UsePreviousTemplate |-> FALSE,
   Tags |-> event.Input.Tags]

\* the catch clause of doUpdate: is the rejected call issued again?
RetryMutAnyValidation(e) ==
  e.cfnException /\ e.name = "ValidationError"

RetryMutNever(e) == FALSE

IsRollbackValidation(e) ==
  /\ e.cfnException
  /\ e.name = "ValidationError"
  /\ Includes(e.message, MSG_ROLLBACK)

\* one activation of doUpdate: the call is sent; it resolves, or doUpdate calls
\* itself with rollback disabled, or the rejection is thrown
doUpdate(input, resp) ==
  IF resp.ok
  THEN [kind |-> "resolved", StackId |-> resp.value, input |-> input, err |-> <<>>]
  ELSE IF IsRollbackValidation(resp.err)
       THEN [kind |-> "recurse", StackId |-> UNDEF,
             input |-> [input EXCEPT !.DisableRollback = TRUE], err |-> <<>>]
       ELSE [kind |-> "thrown", StackId |-> UNDEF, input |-> input, err |-> resp.err.message]

\* what updateStack and upgradeStack return once doUpdate has resolved
updateReturn(event, stackId) ==
  [Action |-> "Describe",
   Input |-> event.Input,
   ExecutionName |-> event.ExecutionName,
   Result |-> StackRec(stackId, event.Input.StackName, UPDATE_IN_PROGRESS, UNDEFSTR)]

\* a deleteStack that goes on to the delete call whatever the protection call
\* came to
deleteStackCoreMutDeleteAnyway(event, descResp, protResp, delResp, alreadyGone) ==
  LET stack == action_describe(descResp)
      dcall == DescribeCall(LookupName(event), descResp)
  IN IF alreadyGone
     THEN Return([Action |-> "End", Input |-> event.Input,
                  ExecutionName |-> UNDEF, Result |-> NoObject],
                 <<dcall>>)
     ELSE LET pcall == Call([op |-> "UpdateTerminationProtection",
                             EnableTerminationProtection |-> FALSE,
                             StackName |-> stack.StackId], protResp)
              xcall == Call([op |-> "DeleteStack", StackName |-> stack.StackId], delResp)
          IN IF ~delResp.ok \/ ~protResp.ok
             THEN Throw(IF ~protResp.ok THEN protResp.err.message ELSE delResp.err.message,
                        <<dcall, pcall, xcall>>)
             ELSE Return([Action |-> "Describe",
                          Input |-> event.Input,
                          ExecutionName |-> event.ExecutionName,
                          Result |-> StackRec(stack.StackId, event.Input.StackName,
                                              DELETE_IN_PROGRESS, UNDEFSTR)],
                         <<dcall, pcall, xcall>>)

deleteStackCore(event, descResp, protResp, delResp, alreadyGone) ==
  LET stack == action_describe(descResp)
      dcall == DescribeCall(LookupName(event), descResp)
  IN IF alreadyGone
     THEN Return([Action |-> "End", Input |-> event.Input,
                  ExecutionName |-> UNDEF, Result |-> NoObject],
                 <<dcall>>)
     ELSE LET pcall == Call([op |-> "UpdateTerminationProtection",
                             EnableTerminationProtection |-> FALSE,
                             StackName |-> stack.StackId], protResp)
              xcall == Call([op |-> "DeleteStack", StackName |-> stack.StackId], delResp)
          IN IF ~protResp.ok
             THEN Throw(protResp.err.message, <<dcall, pcall>>)
             ELSE IF ~delResp.ok
                  THEN Throw(delResp.err.message, <<dcall, pcall, xcall>>)
                  ELSE Return([Action |-> "Describe",
                               Input |-> event.Input,
                               ExecutionName |-> event.ExecutionName,
                               Result |-> StackRec(stack.StackId, event.Input.StackName,
                                                   DELETE_IN_PROGRESS, UNDEFSTR)],
                              <<dcall, pcall, xcall>>)

\* a deleteStack that takes only an absent stack for deleted
deleteStackMutAbsentOnly(event, descResp, protResp, delResp) ==
  deleteStackCore(event, descResp, protResp, delResp,
                  action_describe(descResp) = NoObject)

deleteStack(event, descResp, protResp, delResp) ==
  deleteStackCore(event, descResp, protResp, delResp,
                  \/ action_describe(descResp) = NoObject
                  \/ action_describe(descResp).StackStatus = DELETE_COMPLETE)

\* a describeStack that hands every stack it finds to Callback
describeStackMutNoPoll(event, descResp) ==
  LET stack == action_describe(descResp)
      dcall == DescribeCall(LookupName(event), descResp)
  IN IF stack = NoObject
     THEN Throw(MSG_DESCRIBE_FAILED, <<dcall>>)
     ELSE Return([Action |-> "Callback", Input |-> event.Input,
                  ExecutionName |-> event.ExecutionName, Result |-> stack],
                 <<dcall>>)

describeStack(event, descResp) ==
  LET stack == action_describe(descResp)
      dcall == DescribeCall(LookupName(event), descResp)
  IN IF stack = NoObject
     THEN Throw(MSG_DESCRIBE_FAILED, <<dcall>>)
     ELSE IF EndsWith(stack.StackStatus, SUFFIX_IN_PROGRESS)
          THEN Return([Action |-> "Describe", Input |-> event.Input,
                       ExecutionName |-> event.ExecutionName, Result |-> stack],
                      <<dcall>>)
          ELSE Return([Action |-> "Callback", Input |-> event.Input,
                       ExecutionName |-> event.ExecutionName, Result |-> stack],
                      <<dcall>>)

\* the key and the body of a stack's record in the Output Store
\* a key with the stack's name first
OutputKeyMutStackFirst(executionName, stackName) ==
  <<stackName, "/", executionName, "/", "output.json">>

OutputKey(executionName, stackName) ==
  <<executionName, "/", stackName, "/", "output.json">>
\* JSON.stringify({ [StackName]: stack })
OutputBody(stackName, record) == JObj([n \in {stackName} |-> StackJson(record)])

\* the reason ?? 'Stack failed.'
FailureMessage(result) ==
  IF result.StackStatusReason # UNDEFSTR THEN result.StackStatusReason ELSE MSG_STACK_FAILED

callbackMutFailFirst(event, bucketName, putResp) ==
  IF bucketName = UNDEF \/ ~Truthy(event.ExecutionName)
  THEN Throw(MSG_BUCKET, <<>>)
  ELSE IF event.Result = NoObject
       THEN Throw(MSG_NO_RESULT, <<>>)
       ELSE LET put == Call([op |-> "PutObject",
                             Bucket |-> bucketName,
                             Key |-> OutputKey(event.ExecutionName, event.Input.StackName),
                             Body |-> OutputBody(event.Input.StackName, event.Result)],
                            putResp)
            IN IF EndsWith(event.Result.StackStatus, SUFFIX_FAILED)
               THEN Throw(FailureMessage(event.Result), <<>>)
               ELSE IF ~putResp.ok
                    THEN Throw(putResp.err.message, <<put>>)
                    ELSE Return(event, <<put>>)

callback(event, bucketName, putResp) ==
  IF bucketName = UNDEF \/ ~Truthy(event.ExecutionName)
  THEN Throw(MSG_BUCKET, <<>>)
  ELSE IF event.Result = NoObject
       THEN Throw(MSG_NO_RESULT, <<>>)
       ELSE LET put == Call([op |-> "PutObject",
                             Bucket |-> bucketName,
                             Key |-> OutputKey(event.ExecutionName, event.Input.StackName),
                             Body |-> OutputBody(event.Input.StackName, event.Result)],
                            putResp)
            IN IF ~putResp.ok
               THEN Throw(putResp.err.message, <<put>>)
               ELSE IF EndsWith(event.Result.StackStatus, SUFFIX_FAILED)
                    THEN Throw(FailureMessage(event.Result), <<put>>)
                    ELSE Return(event, <<put>>)

\* handler: the function an event's Action selects
\* a dispatch that hands every request to callback
action_handlerMutAllCallback(action) == "callback"

action_handler(action) ==
  CASE action = "Create" -> "createStack"
    [] action = "Update" -> "updateStack"
    [] action = "Upgrade" -> "upgradeStack"
    [] action = "Delete" -> "deleteStack"
    [] action = "Describe" -> "describeStack"
    [] action = "Callback" -> "callback"
    [] OTHER -> "throw"

(***************************************************************************)
(* The provisioning API and the object store, at their interface           *)
(***************************************************************************)
\* the stack a describe call for `target` (a stack id or a stack name) finds:
\* a deleted stack is found by its id only
Lookup(c, target) ==
  IF c = NoObject THEN NoObject
  ELSE IF target = c.StackId THEN c
  ELSE IF target = c.StackName /\ c.StackStatus # DELETE_COMPLETE THEN c
  ELSE NoObject

DescribeResponses(c, target) ==
  {Rejected(ERR_THROTTLING)} \cup
  (IF Lookup(c, target) # NoObject
   THEN {Described(<<Lookup(c, target)>>)}
   ELSE {Rejected(ERR_NOT_EXIST)})

CreateResponses(c) ==
  {Rejected(ERR_THROTTLING)} \cup
  (IF c = NoObject \/ c.StackStatus = DELETE_COMPLETE
   THEN {Resolved(TheStackId)}
   ELSE {Rejected(ERR_EXISTS)})

Updatable(c) ==
  /\ c # NoObject
  /\ c.StackStatus # DELETE_COMPLETE
  /\ ~EndsWith(c.StackStatus, SUFFIX_IN_PROGRESS)

UpdateResponses(c) ==
  {Rejected(ERR_ROLLBACK), Rejected(ERR_NO_UPDATES), Rejected(ERR_OTHER_NAME),
   Rejected(ERR_NOT_CFN)} \cup
  (IF Updatable(c) THEN {Resolved(c.StackId)} ELSE {Rejected(ERR_NOT_EXIST)})

ProtectionResponses == {Resolved(TheStackId), Rejected(ERR_THROTTLING)}
DeleteResponses == {Resolved("done"), Rejected(ERR_THROTTLING)}
PutResponses == {Resolved("done"), Rejected(ServiceError(FALSE, "ServiceUnavailable", MSG_S3))}

Put(st, key, body) ==
  [k \in (DOMAIN st) \cup {key} |-> IF k = key THEN body ELSE st[k]]

EmptyStore == [k \in {} |-> NoObject]

\* the store after the PutObject calls among `effects` have been accepted
RECURSIVE StoreAfter(_, _)
StoreAfter(st, effects) ==
  IF effects = <<>> THEN st
  ELSE LET e == Head(effects)
       IN StoreAfter(IF e.op = "PutObject" /\ e.ok THEN Put(st, e.Key, e.Body) ELSE st,
                     Tail(effects))

(***************************************************************************)
(* The action state machine (StackActionStateMachine._chain)               *)
(***************************************************************************)
Tasks == {"Execute Task", "Describe Stack", "Callback Task"}

\* where a task's output goes
\* a chain whose poll goes back to the wait without the choice
AfterTaskMutRepoll(task) ==
  CASE task = "Execute Task" -> "End?"
    [] task = "Describe Stack" -> "Wait 15 Seconds"
    [] task = "Callback Task" -> "EndState"

AfterTask(task) ==
  CASE task = "Execute Task" -> "End?"
    [] task = "Describe Stack" -> "Stack in progress?"
    [] task = "Callback Task" -> "EndState"

\* a choice that sends the run to the poll without the wait
EndChoiceTargetMutNoWait(event) ==
  IF event.Action = "End" THEN "EndState" ELSE "Describe Stack"

\* Choice 'End?': Condition.stringEquals('$.Action', 'End')
EndChoiceTarget(event) ==
  IF event.Action = "End" THEN "EndState" ELSE "Wait 15 Seconds"

\* a choice that never sends the run back to wait
ProgressChoiceTargetMutNeverWait(event) == "Callback Task"

\* Choice 'Stack in progress?': Condition.stringMatches('$.Result.StackStatus', '*_IN_PROGRESS')
ProgressChoiceTarget(event) ==
  IF event.Result # NoObject /\ EndsWith(event.Result.StackStatus, SUFFIX_IN_PROGRESS)
  THEN "Wait 15 Seconds"
  ELSE "Callback Task"

\* a task's lambda invocation has come to r: the task fails the run, or its
\* output replaces the document and the run moves on
Finish(r, cfnNext) ==
  /\ log' = log \o r.effects
  /\ store' = StoreAfter(store, r.effects)
  /\ cfn' = cfnNext
  /\ hpc' = "idle"
  /\ IF r.failed
     THEN /\ sm' = "Failed"
          /\ outcome' = "failed"
          /\ error' = r.err
          /\ ev' = ev
     ELSE /\ sm' = AfterTask(sm)
          /\ outcome' = (IF AfterTask(sm) = "EndState" THEN "succeeded" ELSE "running")
          /\ error' = error
          /\ ev' = r.ret
  /\ UNCHANGED <<bucket, ev0, waits, runs, workflowVars, driverVars>>

InTask(fn) == sm \in Tasks /\ hpc = "idle" /\ action_handler(ev.Action) = fn

CreateStack ==
  /\ InTask("createStack")
  /\ \E resp \in CreateResponses(cfn) :
       /\ Finish(createStack(ev, resp),
                 IF resp.ok
                 THEN StackRec(resp.value, ev.Input.StackName, CREATE_IN_PROGRESS, UNDEFSTR)
                 ELSE cfn)
       /\ UNCHANGED updInput

UpdateStack ==
  /\ InTask("updateStack")
  /\ hpc' = "doUpdate"
  /\ updInput' = updateStackInput(ev)
  /\ UNCHANGED <<cfn, store, bucket, sm, ev, ev0, log, waits, runs, outcome, error, workflowVars, driverVars>>

UpgradeStack ==
  /\ InTask("upgradeStack")
  /\ hpc' = "doUpdate"
  /\ updInput' = upgradeStackInput(ev)
  /\ UNCHANGED <<cfn, store, bucket, sm, ev, ev0, log, waits, runs, outcome, error, workflowVars, driverVars>>

UpdateCalls(l) == Cardinality({i \in DOMAIN l : l[i].op = "UpdateStack"})

DoUpdate ==
  /\ sm \in Tasks /\ hpc = "doUpdate"
  /\ UpdateCalls(log) < MaxUpdateCalls
  /\ \E resp \in UpdateResponses(cfn) :
       LET r == doUpdate(updInput, resp) IN
       CASE r.kind = "resolved" ->
              /\ Finish(Return(updateReturn(ev, r.StackId), <<Call(updInput, resp)>>),
                        [cfn EXCEPT !.StackStatus = UPDATE_IN_PROGRESS,
                                    !.StackStatusReason = UNDEFSTR])
              /\ UNCHANGED updInput
         [] r.kind = "thrown" ->
              /\ Finish(Throw(r.err, <<Call(updInput, resp)>>), cfn)
              /\ UNCHANGED updInput
         [] r.kind = "recurse" ->
              /\ log' = Append(log, Call(updInput, resp))
              /\ updInput' = r.input
              /\ UNCHANGED <<cfn, store, bucket, sm, ev, ev0, hpc, waits, runs, outcome, error, workflowVars, driverVars>>

DeleteStack ==
  /\ InTask("deleteStack")
  /\ \E descResp \in DescribeResponses(cfn, LookupName(ev)),
        protResp \in ProtectionResponses, delResp \in DeleteResponses :
       LET r == deleteStack(ev, descResp, protResp, delResp) IN
       /\ Finish(r,
                 IF \E i \in DOMAIN r.effects : r.effects[i].op = "DeleteStack" /\ delResp.ok
                 THEN [cfn EXCEPT !.StackStatus = DELETE_IN_PROGRESS,
                                  !.StackStatusReason = UNDEFSTR]
                 ELSE cfn)
       /\ UNCHANGED updInput

DescribeStack ==
  /\ InTask("describeStack")
  /\ \E descResp \in DescribeResponses(cfn, LookupName(ev)) :
       /\ Finish(describeStack(ev, descResp), cfn)
       /\ UNCHANGED updInput

Callback ==
  /\ InTask("callback")
  /\ \E putResp \in PutResponses :
       /\ Finish(callback(ev, bucket, putResp), cfn)
       /\ UNCHANGED updInput

ActionTypeError ==
  /\ InTask("throw")
  /\ Finish(Throw(MSG_ACTION_TYPE, <<>>), cfn)
  /\ UNCHANGED updInput

EndChoice ==
  /\ sm = "End?"
  /\ sm' = EndChoiceTarget(ev)
  /\ outcome' = (IF EndChoiceTarget(ev) = "EndState" THEN "succeeded" ELSE outcome)
  /\ UNCHANGED <<cfn, store, bucket, ev, ev0, hpc, updInput, log, waits, runs, error, workflowVars, driverVars>>

Wait15 ==
  /\ sm = "Wait 15 Seconds"
  /\ waits < MaxPolls
  /\ waits' = waits + 1
  /\ sm' = "Describe Stack"
  /\ UNCHANGED <<cfn, store, bucket, ev, ev0, hpc, updInput, log, runs, outcome, error, workflowVars, driverVars>>

ProgressChoice ==
  /\ sm = "Stack in progress?"
  /\ sm' = ProgressChoiceTarget(ev)
  /\ UNCHANGED <<cfn, store, bucket, ev, ev0, hpc, updInput, log, waits, runs, outcome, error, workflowVars, driverVars>>

\* a finished run is followed by another run of the same request: the stack and
\* the Output Store are what the earlier run left
RepeatRun ==
  /\ sm \in {"EndState", "Failed"}
  /\ runs < MaxRuns
  /\ runs' = runs + 1
  /\ sm' = "Execute Task"
  /\ ev' = ev0
  /\ hpc' = "idle"
  /\ updInput' = NoObject
  /\ log' = <<>>
  /\ waits' = 0
  /\ outcome' = "running"
  /\ error' = <<>>
  /\ UNCHANGED <<cfn, store, bucket, ev0, workflowVars, driverVars>>

\* the provider finishes the operation in progress, one way or the other
ProviderProgress ==
  /\ cfn # NoObject
  /\ EndsWith(cfn.StackStatus, SUFFIX_IN_PROGRESS)
  /\ \E phase \in {COMPLETE, FAILED, ROLLBACK_COMPLETE} :
       /\ phase = ROLLBACK_COMPLETE => cfn.StackStatus[1] = "UPDATE"
       /\ cfn' = [cfn EXCEPT !.StackStatus = St(cfn.StackStatus[1], phase),
                             !.StackStatusReason =
                                IF phase = COMPLETE THEN UNDEFSTR ELSE MSG_REASON,
                             !.Outputs =
                                IF phase = COMPLETE /\ cfn.StackStatus[1] # "DELETE"
                                THEN TheOutputs ELSE cfn.Outputs]
  /\ UNCHANGED <<store, bucket, sm, ev, ev0, hpc, updInput, log, waits, runs, outcome, error, workflowVars, driverVars>>

(***************************************************************************)
(* Runs of the action state machine                                        *)
(***************************************************************************)
StackActions == {"Create", "Update", "Upgrade", "Delete", "Describe", "Callback", "End"}

\* the Result a run may be started with
InitialResults ==
  {NoObject,
   StackRec(TheStackId, "S1", CREATE_COMPLETE, UNDEFSTR),
   StackRec(TheStackId, "S1", UPDATE_IN_PROGRESS, UNDEFSTR),
   StackRec(TheStackId, "S1", UPDATE_ROLLBACK_COMPLETE, UNDEFSTR),
   StackRec(TheStackId, "S1", DELETE_FAILED, MSG_REASON),
   StackRec(TheStackId, "S1", UPDATE_ROLLBACK_FAILED, UNDEFSTR),
   StackRec(UNDEF, "S1", UNDEFSTR, UNDEFSTR)}

InitialEvents ==
  [Action : StackActions, Input : {TheInput},
   ExecutionName : {"E1", "", UNDEF}, Result : InitialResults]

\* the stack the provider may hold when a run starts
InitialStacks ==
  {NoObject,
   WithOutputs(StackRec(TheStackId, "S1", CREATE_COMPLETE, UNDEFSTR), TheOutputs),
   StackRec(TheStackId, "S1", UPDATE_FAILED, MSG_REASON),
   StackRec(TheStackId, "S1", DELETE_COMPLETE, UNDEFSTR),
   StackRec(TheStackId, "S1", DELETE_IN_PROGRESS, UNDEFSTR)}

\* no invocation of the workflow lambda is in hand
WorkflowIdle ==
  /\ winputs = <<>>
  /\ wevent = NoObject
  /\ wpc = "idle"
  /\ wstates = [present |-> FALSE]
  /\ wkey = UNDEF
  /\ wdata = <<>>
  /\ wresults = <<>>
  /\ wlog = <<>>

\* no execution of the workflow state machine has been started
DriverIdle ==
  /\ dexecs = <<>>
  /\ ddispatched = <<>>

InitAction ==
  /\ wbucket = UNDEF
  /\ WorkflowIdle
  /\ DriverIdle
  /\ cfn \in InitialStacks
  /\ store = EmptyStore
  /\ bucket \in {"callback-bucket", UNDEF}
  /\ sm = "Execute Task"
  /\ ev \in InitialEvents
  /\ ev0 = ev
  /\ hpc = "idle"
  /\ updInput = NoObject
  /\ log = <<>>
  /\ waits = 0
  /\ runs = 1
  /\ outcome = "running"
  /\ error = <<>>

NextAction ==
  \/ CreateStack
  \/ UpdateStack
  \/ UpgradeStack
  \/ DoUpdate
  \/ DeleteStack
  \/ DescribeStack
  \/ Callback
  \/ ActionTypeError
  \/ EndChoice
  \/ Wait15
  \/ ProgressChoice
  \/ RepeatRun
  \/ ProviderProgress

SpecAction == InitAction /\ [][NextAction]_actionVars

(***************************************************************************)
(* Claims about the action lambda and the action state machine             *)
(***************************************************************************)
LastCall(l) == l[Len(l)]

\* C1: a Callback invocation with the bucket configured, a non-empty
\* ExecutionName and a Result whose status ends in 'FAILED' first issues the
\* PutObject for '<ExecutionName>/<StackName>/output.json' with {StackName: Result}
\* and only then throws; once the store has accepted the write the record is in
\* the store and the error is the StackStatusReason, or 'Stack failed.' without one.
C1_FailedCallbackPersistsThenRaises ==
  [][ ( /\ InTask("callback")
        /\ sm' # sm
        /\ bucket # UNDEF
        /\ Truthy(ev.ExecutionName)
        /\ ev.Result # NoObject
        /\ EndsWith(ev.Result.StackStatus, SUFFIX_FAILED) )
      => /\ Len(log') = Len(log) + 1
         /\ LastCall(log').op = "PutObject"
         /\ LastCall(log').Bucket = bucket
         /\ LastCall(log').Key = <<ev.ExecutionName, "/", ev.Input.StackName, "/", "output.json">>
         /\ LastCall(log').Body.t = "object"
         /\ DOMAIN LastCall(log').Body.v = {ev.Input.StackName}
         /\ LastCall(log').Body.v[ev.Input.StackName].v.StackName.v = ev.Result.StackName
         /\ LastCall(log').Body.v[ev.Input.StackName].v.StackStatus.v = ev.Result.StackStatus
         /\ ("StackStatusReason" \in DOMAIN LastCall(log').Body.v[ev.Input.StackName].v)
              <=> (ev.Result.StackStatusReason # UNDEFSTR)
         /\ outcome' = "failed"
         /\ LastCall(log').ok =>
              /\ error' = (IF ev.Result.StackStatusReason = UNDEFSTR
                           THEN <<"Stack failed.">>
                           ELSE ev.Result.StackStatusReason)
              /\ LastCall(log').Key \in DOMAIN store'
              /\ store'[LastCall(log').Key] = LastCall(log').Body
    ]_actionVars

C1_Witness ==
  /\ outcome = "failed"
  /\ error = MSG_REASON
  /\ log # <<>>
  /\ LastCall(log).op = "PutObject"
  /\ LastCall(log).ok
  /\ <<"E1", "/", "S1", "/", "output.json">> \in DOMAIN store
  /\ store[<<"E1", "/", "S1", "/", "output.json">>].v["S1"].v.StackStatus.v = DELETE_FAILED

\* C2: one Update or Upgrade invocation issues at most two update calls,
\* whatever the provider answers.
C2_AtMostTwoUpdateCalls == UpdateCalls(log) <= 2

\* C3: an update call is issued again exactly when it was rejected with the
\* rollback ValidationError; the first call has DisableRollback = false, a
\* re-issued one has DisableRollback = true and is otherwise the request built
\* from the event; any other rejection fails the invocation with the rejection's
\* message, without a further call and without a Describe transition (after
\* exactly one call when it is the first call that was rejected).
C3_RetryOnlyOnRollbackValidation ==
  [][ (hpc = "doUpdate" /\ Len(log') = Len(log) + 1)
      => LET call == LastCall(log')
             first == UpdateCalls(log) = 0
         IN /\ call.op = "UpdateStack"
            /\ call.DisableRollback = ~first
            /\ call.StackName = ev.Input.StackName
            /\ call.Parameters = ev.Input.Parameters
            /\ call.Tags = ev.Input.Tags
            /\ call.UsePreviousTemplate = (ev.Action = "Update")
            /\ call.TemplateURL = (IF ev.Action = "Update" THEN UNDEF ELSE ev.Input.TemplateURL)
            /\ (hpc' = "doUpdate") <=> (~call.ok /\ call.err = ERR_ROLLBACK)
            /\ (hpc' = "doUpdate") => /\ updInput'.DisableRollback
                                      /\ sm' = sm /\ ev' = ev /\ outcome' = "running"
            /\ (~call.ok /\ call.err # ERR_ROLLBACK)
                 => /\ outcome' = "failed"
                    /\ error' = call.err.message
                    /\ ev' = ev
                    /\ sm' = "Failed"
                    /\ first => UpdateCalls(log') = 1
            /\ call.ok => /\ ev'.Action = "Describe"
                          /\ ev'.Result.StackStatus = UPDATE_IN_PROGRESS
    ]_actionVars

C3_Witness ==
  /\ sm = "End?"
  /\ ev.Action = "Describe"
  /\ UpdateCalls(log) = 2
  /\ ~log[1].ok /\ ~log[1].DisableRollback
  /\ log[2].ok /\ log[2].DisableRollback

\* the provider reports the stack the event names as absent or deleted
ReportedGone ==
  \/ Lookup(cfn, LookupName(ev)) = NoObject
  \/ Lookup(cfn, LookupName(ev)).StackStatus = DELETE_COMPLETE

\* C4: Delete on a stack the provider reports as absent or in DELETE_COMPLETE
\* returns Action = End after the describe call alone (no termination-protection
\* call, no delete call, no Output Store write, the stack untouched); the state
\* machine then goes from 'End?' to EndState without a wait or a further task,
\* and a repeated run starts from the same stack and store.
C4_DeleteOfGoneStackEnds ==
  [][ /\ (InTask("deleteStack") /\ sm' # sm /\ ReportedGone)
         => /\ ev' = [Action |-> "End", Input |-> ev.Input,
                      ExecutionName |-> UNDEF, Result |-> NoObject]
            /\ Len(log') = Len(log) + 1
            /\ LastCall(log').op = "DescribeStacks"
            /\ store' = store
            /\ cfn' = cfn
            /\ sm' = "End?"
      /\ (sm = "End?" /\ ev.Action = "End" /\ sm' # sm)
         => /\ sm' = "EndState"
            /\ outcome' = "succeeded"
            /\ UNCHANGED <<cfn, store, log, waits, ev>>
      /\ (sm = "EndState" /\ sm' # sm)
         => /\ sm' = "Execute Task"
            /\ ev' = ev0
            /\ runs' = runs + 1
            /\ UNCHANGED store
    ]_actionVars

C4_Witness ==
  /\ runs = 2
  /\ ev0.Action = "Delete"
  /\ sm = "EndState"
  /\ ev.Action = "End"
  /\ cfn # NoObject
  /\ Len(log) = 1
  /\ waits = 0

(***************************************************************************)
(* The workflow lambda                                                     *)
(***************************************************************************)
\* an optional object-valued property
Some(x) == [present |-> TRUE, v |-> x]
None == [present |-> FALSE]

\* a WorkflowState: a step of a branch, or the input of an execution
Node(type, executionName, data, branches, end, next) ==
  [Type |-> type, ExecutionName |-> executionName, Data |-> data,
   Branches |-> branches, End |-> end, Next |-> next,
   States |-> None, StartAt |-> UNDEF]

\* a WorkflowParallelBranch, and the same shape given as the input itself
Branch(startAt, states) == [StartAt |-> startAt, States |-> states]
BareBranch(startAt, states) ==
  [Type |-> UNDEF, ExecutionName |-> UNDEF, Data |-> NoObject,
   Branches |-> None, End |-> FALSE, Next |-> UNDEF,
   States |-> states, StartAt |-> startAt]

\* a WorkflowCallSelfState
CallSelf(node) == [Type |-> "CallSelf", Data |-> node, Token |-> "token"]

\* StackData
StackData(action, stackName, parameters) ==
  [ExecutionName |-> UNDEF,
   Input |-> [Region |-> "r1", Action |-> action, StackName |-> stackName,
              TemplateURL |-> "tpl", Parameters |-> parameters, Tags |-> <<>>]]

\* the event InputTask builds
InitialEvent(executionName, value) ==
  [Type |-> "Initial",
   Data |-> [ExecutionName |-> executionName, Input |-> [value |-> value]]]

\* event.Data?.ExecutionName ?? ''
CurExecutionName(event) ==
  IF event.Data.ExecutionName = UNDEF THEN "" ELSE event.Data.ExecutionName

\* the node the handler works on: the input, or the Data of a CallSelf input
OriginInput(event) ==
  LET value == event.Data.Input.value
  IN IF value # NoObject /\ value.Type = "CallSelf" THEN value.Data ELSE value

\* a stamp that replaces the name a state came with
pathExecutionNameMutAlways(state, executionName) ==
  [state EXCEPT !.ExecutionName = executionName]

pathExecutionName(state, executionName) ==
  IF state.ExecutionName = UNDEF \/ executionName = ""
  THEN [state EXCEPT !.ExecutionName = executionName]
  ELSE state

\* the stamp _pathExecutionNameToBranches puts on one state
pathExecutionNameToBranchesMutNone(branches, executionName) == branches

pathExecutionNameToBranches(branches, executionName) ==
  [i \in DOMAIN branches |->
     [branches[i] EXCEPT !.States =
        Some([k \in DOMAIN branches[i].States.v |->
                pathExecutionName(branches[i].States.v[k], executionName)])]]

\* serial, the body of the loop for the step in hand: the stamp
serialStamp(step, executionName) ==
  IF ~Truthy(step.ExecutionName)
  THEN [step EXCEPT !.ExecutionName = executionName]
  ELSE step

\* serial, the test that ends the loop
serialBreakMutNextFirst(step) == ~Truthy(step.Next)

serialBreak(step) == step.End \/ ~Truthy(step.Next)

(***************************************************************************)
(* The parameter resolver                                                  *)
(***************************************************************************)
StartsWith(s, prefix) ==
  /\ s # UNDEFSTR
  /\ Len(s) >= Len(prefix)
  /\ SubSeq(s, 1, Len(prefix)) = prefix

DOT == "."
SUFFIX_JSONPATH == <<DOT, "$">>
PREFIX_JSONPATH == <<"$", DOT>>
SUFFIX_OUTPUT == <<DOT, "#">>
PREFIX_OUTPUT == <<"#", DOT>>

\* String.split('.') on token sequences: the segments between the dots
RECURSIVE Split(_)
Split(s) ==
  IF \E i \in DOMAIN s : s[i] = DOT
  THEN LET i == CHOOSE j \in DOMAIN s : s[j] = DOT /\ \A k \in 1..(j - 1) : s[k] # DOT
       IN <<SubSeq(s, 1, i - 1)>> \o Split(SubSeq(s, i + 1, Len(s)))
  ELSE <<s>>

\* a segment used as a name (stack names are single tokens here)
SegName(segs, i) ==
  IF i > Len(segs) THEN "undefined"
  ELSE IF segs[i] = <<>> THEN ""
  ELSE IF Len(segs[i]) = 1 THEN segs[i][1]
  ELSE UNDEF

\* paramKey.substring(0, paramKey.length - 2), for a key that ends in a two
\* character suffix
StripSuffix(key) == SubSeq(key, 1, Len(key) - 2)

GetObjectCall(bucketName, key, resp) ==
  Call([op |-> "GetObject", Bucket |-> bucketName, Key |-> key], resp)

\* getObject: the body, or undefined when the read fails
getObject(resp) == IF resp.ok THEN resp.value ELSE NoObject

\* JSON.parse(output)[stackName], when neither throws
ParsedStack(body, stackName) ==
  IF body # NoObject /\ body.t = "object" /\ stackName \in DOMAIN body.v
  THEN Some(body.v[stackName])
  ELSE None

\* the last output whose key ends with the suffix
RECURSIVE FirstMatchMutLast(_, _)
FirstMatchMutLast(outputs, suffix) ==
  IF outputs = <<>> THEN <<>>
  ELSE LET out == outputs[Len(outputs)].v
       IN IF "OutputKey" \in DOMAIN out /\ EndsWith(out.OutputKey.v, suffix)
          THEN (IF "OutputValue" \in DOMAIN out THEN out.OutputValue.v ELSE <<>>)
          ELSE FirstMatchMutLast(SubSeq(outputs, 1, Len(outputs) - 1), suffix)

\* the first output whose key ends with the suffix
RECURSIVE FirstMatch(_, _)
FirstMatch(outputs, suffix) ==
  IF outputs = <<>> THEN <<>>
  ELSE LET out == Head(outputs).v
       IN IF "OutputKey" \in DOMAIN out /\ EndsWith(out.OutputKey.v, suffix)
          THEN (IF "OutputValue" \in DOMAIN out THEN out.OutputValue.v ELSE <<>>)
          ELSE FirstMatch(Tail(outputs), suffix)

\* a resolution that leaves the reference as the value when it finds nothing
getParameterKeyAndValueByStackOutputMutKeepValue(paramKey, paramValue, resp) ==
  LET splitValues == Split(paramValue)
      stackName == SegName(splitValues, 2)
      stack == ParsedStack(getObject(resp), stackName)
      suffix == IF Len(splitValues) >= 3 THEN splitValues[3] ELSE <<"undefined">>
      value == IF stack.present /\ stack.v.t = "object" /\ "Outputs" \in DOMAIN stack.v.v
                  /\ stack.v.v.Outputs.t = "array"
               THEN FirstMatch(stack.v.v.Outputs.v, suffix)
               ELSE paramValue
  IN [ParameterKey |-> StripSuffix(paramKey), ParameterValue |-> value]

getParameterKeyAndValueByStackOutput(paramKey, paramValue, resp) ==
  LET splitValues == Split(paramValue)
      stackName == SegName(splitValues, 2)
      stack == ParsedStack(getObject(resp), stackName)
      suffix == IF Len(splitValues) >= 3 THEN splitValues[3] ELSE <<"undefined">>
      value == IF stack.present /\ stack.v.t = "object" /\ "Outputs" \in DOMAIN stack.v.v
                  /\ stack.v.v.Outputs.t = "array"
               THEN FirstMatch(stack.v.v.Outputs.v, suffix)
               ELSE <<>>
  IN [ParameterKey |-> StripSuffix(paramKey), ParameterValue |-> value]

\* array indexes that count from one
PathIndexMutFromOne(token) ==
  CASE token = "[1]" -> 1
    [] token = "[2]" -> 2
    [] OTHER -> 0

\* an array index of a path, as the position it selects
PathIndex(token) ==
  CASE token = "[0]" -> 1
    [] token = "[1]" -> 2
    [] OTHER -> 0

\* JSONPath({ path, json }) for paths of property names, array indexes and the
\* wildcard [*]: the list of matches, in the order of the document
RECURSIVE JSONPath(_, _)
RECURSIVE JSONPathEach(_, _)
\* the matches of the path in each of the items, one item after the other
JSONPathEach(path, items) ==
  IF items = <<>> THEN <<>>
  ELSE JSONPath(path, Head(items)) \o JSONPathEach(path, Tail(items))

JSONPath(path, json) ==
  IF path = <<>> THEN <<json>>
  ELSE LET token == Head(path)
       IN IF token = DOT THEN JSONPath(Tail(path), json)
          ELSE IF token = "[*]"
          THEN (IF json.t = "array" THEN JSONPathEach(Tail(path), json.v) ELSE <<>>)
          ELSE IF PathIndex(token) > 0
          THEN (IF json.t = "array" /\ PathIndex(token) <= Len(json.v)
                THEN JSONPath(Tail(path), json.v[PathIndex(token)])
                ELSE <<>>)
          ELSE (IF json.t = "object" /\ token \in DOMAIN json.v
                THEN JSONPath(Tail(path), json.v[token])
                ELSE <<>>)

getParameterKeyAndValueByJSONPath(paramKey, paramValue, resp) ==
  LET body == getObject(resp)
      values == IF body # NoObject /\ body.t # "garbage"
                THEN JSONPath(Tail(paramValue), body)
                ELSE <<>>
      value == IF Len(values) > 0
               THEN (IF values[1].t = "string" THEN values[1].v ELSE values[1])
               ELSE <<>>
  IN [ParameterKey |-> StripSuffix(paramKey), ParameterValue |-> value]

\* which form a parameter has
ParameterForm(param) ==
  IF EndsWith(param.ParameterKey, SUFFIX_JSONPATH) /\ StartsWith(param.ParameterValue, PREFIX_JSONPATH)
  THEN "JSONPath"
  ELSE IF EndsWith(param.ParameterKey, SUFFIX_OUTPUT) /\ StartsWith(param.ParameterValue, PREFIX_OUTPUT)
       THEN "StackOutput"
       ELSE "literal"

\* the key of the object a reference parameter reads
ReferenceKey(prefix, param) ==
  <<prefix, "/", SegName(Split(param.ParameterValue), 2), "/", "output.json">>

\* a turn of the loop that blanks the value of a parameter it does not resolve
ResolveParameterMutBlank(param, resp) ==
  CASE ParameterForm(param) = "JSONPath" ->
         getParameterKeyAndValueByJSONPath(param.ParameterKey, param.ParameterValue, resp)
    [] ParameterForm(param) = "StackOutput" ->
         getParameterKeyAndValueByStackOutput(param.ParameterKey, param.ParameterValue, resp)
    [] OTHER -> [param EXCEPT !.ParameterValue = <<>>]

\* one turn of the loop of stackParametersResolve
ResolveParameter(param, resp) ==
  CASE ParameterForm(param) = "JSONPath" ->
         getParameterKeyAndValueByJSONPath(param.ParameterKey, param.ParameterValue, resp)
    [] ParameterForm(param) = "StackOutput" ->
         getParameterKeyAndValueByStackOutput(param.ParameterKey, param.ParameterValue, resp)
    [] OTHER -> param

\* resps[i] is the answer to the read parameter i makes (unused for a literal)
stackParametersResolve(state, bucketName, resps) ==
  IF state.Data = NoObject
  THEN Throw(MSG_NO_DATA, <<>>)
  ELSE IF bucketName = UNDEF \/ ~Truthy(state.ExecutionName)
  THEN Throw(MSG_BUCKET, <<>>)
  ELSE LET params == state.Data.Input.Parameters
           refs == {i \in DOMAIN params : ParameterForm(params[i]) # "literal"}
           Reads[i \in 0..Len(params)] ==
             IF i = 0 THEN <<>>
             ELSE IF i \in refs
                  THEN Append(Reads[i - 1],
                              GetObjectCall(bucketName,
                                            ReferenceKey(state.ExecutionName, params[i]),
                                            resps[i]))
                  ELSE Reads[i - 1]
       IN Return([state EXCEPT
                    !.Data.Input.Parameters =
                       [i \in DOMAIN params |-> ResolveParameter(params[i], resps[i])],
                    !.Data.ExecutionName = state.ExecutionName],
                 Reads[Len(params)])

workflow_describe(resp) ==
  IF resp.ok
  THEN IF resp.hasStacks /\ Len(resp.Stacks) > 0 THEN resp.Stacks[1] ELSE NoObject
  ELSE NoObject

\* callback of the workflow lambda, for a Pass node
workflow_callback(state, bucketName, descResp, putResp) ==
  IF bucketName = UNDEF \/ ~Truthy(state.ExecutionName)
  THEN Throw(MSG_BUCKET, <<>>)
  ELSE IF state.Data = NoObject
  THEN Throw(MSG_NO_DATA, <<>>)
  ELSE LET stack == workflow_describe(descResp)
           dcall == DescribeCall(state.Data.Input.StackName, descResp)
           put == Call([op |-> "PutObject",
                        Bucket |-> bucketName,
                        Key |-> OutputKey(state.ExecutionName, state.Data.Input.StackName),
                        Body |-> OutputBody(state.Data.Input.StackName, stack)],
                       putResp)
       IN IF stack = NoObject
          THEN Throw(MSG_DESCRIBE_FAILED, <<dcall>>)
          ELSE IF ~putResp.ok
               THEN Throw(putResp.err.message, <<dcall, put>>)
               ELSE Return(state, <<dcall, put>>)

(***************************************************************************)
(* Invocations of the workflow lambda (handler)                            *)
(***************************************************************************)
\* the catch block of the handler: whatever was thrown, one error leaves
CaughtMutRethrow(r) ==
  IF r.failed
  THEN [failed |-> TRUE, ret |-> NoObject, err |-> r.err]
  ELSE [failed |-> FALSE, ret |-> r.ret, err |-> <<>>]

Caught(r) ==
  IF r.failed
  THEN [failed |-> TRUE, ret |-> NoObject, err |-> MSG_WORKFLOW_FAILED]
  ELSE [failed |-> FALSE, ret |-> r.ret, err |-> <<>>]

SerialPlan(data) == [Type |-> "Serial", Data |-> data]
ParallelPlan(branches) == [Type |-> "Parallel", Data |-> branches]

\* the event, holding the node after the handler has stamped it
WithOrigin(event, node) ==
  IF event.Data.Input.value.Type = "CallSelf"
  THEN [event EXCEPT !.Data.Input.value.Data = node]
  ELSE [event EXCEPT !.Data.Input.value = node]

\* the answers of the store to a read
GetObjectResponses(st, key) ==
  {Rejected(ServiceError(FALSE, "ServiceUnavailable", MSG_S3))} \cup
  (IF key \in DOMAIN st
   THEN {Resolved(st[key])}
   ELSE {Rejected(ServiceError(FALSE, "NoSuchKey", MSG_S3))})

\* the answers to the reads stackParametersResolve makes for `state`
ResolveResponses(st, state) ==
  LET params == state.Data.Input.Parameters
      All == UNION {GetObjectResponses(st, ReferenceKey(state.ExecutionName, params[i])) :
                      i \in DOMAIN params}
      Unused == Resolved(NoObject)
  IN {resps \in [DOMAIN params -> All \cup {Unused}] :
        \A i \in DOMAIN params :
          IF ParameterForm(params[i]) = "literal"
          THEN resps[i] = Unused
          ELSE resps[i] \in GetObjectResponses(st, ReferenceKey(state.ExecutionName, params[i]))}

\* the handler is entered with the next event, Head(winputs)
Entered == wpc = "idle" /\ winputs # <<>>

\* the invocation in hand ends with r, having issued `effects`
WfFinish(r, effects) ==
  /\ wresults' = Append(wresults, Caught(r))
  /\ wlog' = wlog \o effects
  /\ store' = StoreAfter(store, effects)
  /\ wpc' = "idle"
  /\ wevent' = NoObject
  /\ wstates' = None
  /\ wkey' = UNDEF
  /\ wdata' = <<>>
  /\ UNCHANGED <<wbucket, cfn, bucket, sm, ev, ev0, hpc, updInput, log, waits, runs, outcome, error, driverVars>>

\* the handler calls serial(branch, curExecutionName)
WfSerial(event, branch) ==
  /\ wpc' = "serial"
  /\ wevent' = event
  /\ wstates' = branch.States
  /\ wkey' = branch.StartAt
  /\ wdata' = <<>>
  /\ UNCHANGED <<wresults, wlog, wbucket, actionVars, driverVars>>

WfNoInput ==
  /\ Entered
  /\ Head(winputs).Data.Input.value = NoObject
  /\ winputs' = Tail(winputs)
  /\ WfFinish(Throw(MSG_NO_INPUT, <<>>), <<>>)

\* the name describe is asked about
DescribeTarget(state) ==
  IF state.Data = NoObject THEN UNDEF ELSE state.Data.Input.StackName

WfPass ==
  /\ Entered
  /\ Head(winputs).Data.Input.value # NoObject
  /\ LET event == Head(winputs)
         state == pathExecutionName(OriginInput(event), CurExecutionName(event))
     IN /\ state.Type = "Pass"
        /\ \E descResp \in DescribeResponses(cfn, DescribeTarget(state)), putResp \in PutResponses :
             LET r == workflow_callback(state, wbucket, descResp, putResp)
             IN WfFinish(IF r.failed THEN r ELSE Return(WithOrigin(event, state), r.effects),
                         r.effects)
  /\ winputs' = Tail(winputs)

WfStack ==
  /\ Entered
  /\ Head(winputs).Data.Input.value # NoObject
  /\ LET event == Head(winputs)
         state == pathExecutionName(OriginInput(event), CurExecutionName(event))
     IN /\ state.Type = "Stack"
        /\ IF state.Data = NoObject
           THEN WfFinish(stackParametersResolve(state, wbucket, <<>>), <<>>)
           ELSE \E resps \in ResolveResponses(store, state) :
                  LET r == stackParametersResolve(state, wbucket, resps)
                  IN WfFinish(r, r.effects)
  /\ winputs' = Tail(winputs)

\* case 'Parallel', branches absent or empty
WfParallelNoBranches ==
  /\ Entered
  /\ Head(winputs).Data.Input.value # NoObject
  /\ LET origin == OriginInput(Head(winputs))
     IN /\ origin.Type = "Parallel"
        /\ IF origin.Branches.present THEN Len(origin.Branches.v) = 0 ELSE TRUE
  /\ winputs' = Tail(winputs)
  /\ WfFinish(Throw(MSG_NO_BRANCHES, <<>>), <<>>)

\* the branch serial is called with, for a Parallel node of one branch
handlerParallelOneMutNoUnwrap(origin) == Branch(origin.StartAt, origin.States)

handlerParallelOne(origin) == origin.Branches.v[1]

WfParallelOne ==
  /\ Entered
  /\ Head(winputs).Data.Input.value # NoObject
  /\ LET origin == OriginInput(Head(winputs))
     IN /\ origin.Type = "Parallel"
        /\ origin.Branches.present
        /\ Len(origin.Branches.v) = 1
        /\ WfSerial(Head(winputs), handlerParallelOne(origin))
  /\ winputs' = Tail(winputs)

\* what the handler returns for a Parallel node of two or more branches:
\* Object.values(branch.States) throws for a branch without States
\* a plan whose references are already taken out of the parameters
handlerParallelManyMutResolved(origin, executionName) ==
  IF \E i \in DOMAIN origin.Branches.v : ~origin.Branches.v[i].States.present
  THEN Throw(MSG_TYPE_ERROR, <<>>)
  ELSE Return(ParallelPlan(
                [i \in DOMAIN origin.Branches.v |->
                   [pathExecutionNameToBranches(origin.Branches.v, executionName)[i]
                      EXCEPT !.States.v =
                        [k \in DOMAIN @ |->
                           [@[k] EXCEPT !.Data.Input.Parameters =
                              [j \in DOMAIN @ |->
                                 IF ParameterForm(@[j]) = "literal" THEN @[j]
                                 ELSE [ParameterKey |-> StripSuffix(@[j].ParameterKey),
                                       ParameterValue |-> <<>>]]]]]]),
              <<>>)

handlerParallelMany(origin, executionName) ==
  IF \E i \in DOMAIN origin.Branches.v : ~origin.Branches.v[i].States.present
  THEN Throw(MSG_TYPE_ERROR, <<>>)
  ELSE Return(ParallelPlan(pathExecutionNameToBranches(origin.Branches.v, executionName)), <<>>)

WfParallelMany ==
  /\ Entered
  /\ Head(winputs).Data.Input.value # NoObject
  /\ LET origin == OriginInput(Head(winputs))
     IN /\ origin.Type = "Parallel"
        /\ origin.Branches.present
        /\ Len(origin.Branches.v) > 1
        /\ WfFinish(handlerParallelMany(origin, CurExecutionName(Head(winputs))), <<>>)
  /\ winputs' = Tail(winputs)

\* the branch the default case builds from the input
handlerDefault(origin) == Branch(origin.StartAt, origin.States)

WfDefault ==
  /\ Entered
  /\ Head(winputs).Data.Input.value # NoObject
  /\ LET origin == OriginInput(Head(winputs))
     IN /\ origin.Type \notin {"Pass", "Stack", "Parallel"}
        /\ WfSerial(Head(winputs), handlerDefault(origin))
  /\ winputs' = Tail(winputs)

\* one turn of the loop of serial; currentStep is states[currentKey]
SerialStep ==
  /\ wpc = "serial"
  /\ Len(wdata) < MaxVisits
  /\ UNCHANGED winputs
  /\ IF ~wstates.present \/ wkey \notin DOMAIN wstates.v
     THEN WfFinish(Throw(MSG_TYPE_ERROR, <<>>), <<>>)
     ELSE LET step == serialStamp(wstates.v[wkey], CurExecutionName(wevent))
              data == Append(wdata, step)
          IN IF serialBreak(step)
             THEN WfFinish(Return(SerialPlan(data), <<>>), <<>>)
             ELSE /\ wdata' = data
                  /\ wstates' = Some([wstates.v EXCEPT ![wkey] = step])
                  /\ wkey' = step.Next
                  /\ UNCHANGED <<wpc, wevent, wresults, wlog, wbucket, actionVars, driverVars>>

(***************************************************************************)
(* Inputs of the workflow lambda                                           *)
(***************************************************************************)
\* the names of the states of a branch, and a name no branch has
StateNames == {"A", "B"}
NoSuchState == "X"

\* the ExecutionName a state arrives with
ArrivingNames == {UNDEF, "", "own"}

\* Parameters of a Stack node: a literal, a reference by output-key suffix and
\* a reference by JSONPath
LiteralParameter ==
  [ParameterKey |-> <<"Name">>, ParameterValue |-> <<"v">>]
SuffixParameter ==
  [ParameterKey |-> <<"Table", DOT, "#">>,
   ParameterValue |-> <<"#", DOT, "S1", DOT, "Name">>]
PathParameter ==
  [ParameterKey |-> <<"Queue", DOT, "$">>,
   ParameterValue |-> <<"$", DOT, "S1", DOT, "Outputs", "[1]", DOT, "OutputValue">>]
\* a Parameter of the request
Parameter(key, value) == [ParameterKey |-> key, ParameterValue |-> value]

\* also: a suffix no output key ends with, a stack that has no record, a path
\* that selects nothing, and keys that end in a reference suffix with a value
\* that does not start with the prefix of that suffix
ParameterLists ==
  {<<>>, <<LiteralParameter>>, <<SuffixParameter, LiteralParameter>>, <<PathParameter>>,
   <<Parameter(<<"Topic", DOT, "#">>, <<"#", DOT, "S1", DOT, "Arn">>), PathParameter>>,
   <<Parameter(<<"Vpc", DOT, "#">>, <<"#", DOT, "S2", DOT, "Name">>), SuffixParameter>>,
   <<Parameter(<<"Role", DOT, "$">>, <<"$", DOT, "S1", DOT, "Outputs", "[1]", DOT, "Arn">>)>>,
   <<Parameter(<<"Status", DOT, "$">>, <<"$", DOT, "S1", DOT, "StackStatus">>), LiteralParameter>>,
   <<Parameter(<<"Any", DOT, "$">>, <<"$", DOT, "S1", DOT, "Outputs", "[*]", DOT, "OutputValue">>)>>,
   <<Parameter(<<"Flag", DOT, "#">>, <<"v">>)>>,
   <<Parameter(<<"Mixed", DOT, "$">>, <<"#", DOT, "S1", DOT, "Name">>), LiteralParameter>>}

TheStackData == StackData("Create", "S1", <<LiteralParameter>>)

\* the steps a branch is made of
StepNodes ==
  {Node("Stack", x, TheStackData, None, e, n) :
     x \in ArrivingNames, e \in BOOLEAN, n \in {UNDEF, NoSuchState} \cup StateNames}

\* branches of one or two states, and a branch without States
Branches ==
  {Branch(s, Some(m)) :
     s \in StateNames \cup {NoSuchState},
     m \in UNION {[d -> StepNodes] : d \in {{"A"}, StateNames}}}
  \cup {Branch("A", None)}

\* the branch lists of the Parallel nodes of two branches
TwoStates ==
  [n \in StateNames |->
     IF n = "A" THEN Node("Stack", UNDEF, TheStackData, None, FALSE, "B")
     ELSE Node("Stack", "own", TheStackData, None, TRUE, UNDEF)]
BranchLists ==
  {<<b, c>> :
     b \in {x \in Branches : x.States.present => DOMAIN x.States.v = {"A"}},
     c \in {Branch("A", Some(TwoStates)), Branch(NoSuchState, Some(TwoStates))}}

ParallelNode(x, branches) == Node("Parallel", x, NoObject, branches, FALSE, UNDEF)

\* Stack and Pass nodes given as the input
TaskNodes ==
  {Node(t, x, d, None, FALSE, UNDEF) :
     t \in {"Stack", "Pass"}, x \in ArrivingNames,
     d \in {NoObject} \cup {StackData("Create", "S1", ps) : ps \in ParameterLists}}

\* the name of the execution that invokes the handler
ExecutionNames == {"E", ""}

\* the value as it is, or as a self-continuation hands it over
AsInput(node) == {node, CallSelf(node)}

\* the contents of the Output Store an invocation may find
TheCompleteStack ==
  WithOutputs(StackRec(TheStackId, "S1", CREATE_COMPLETE, UNDEFSTR), TheOutputs)
\* also: a document under another stack's name, and the record of a stack
\* that has no Outputs
Stores ==
  {EmptyStore,
   Put(EmptyStore, OutputKey("E", "S1"), OutputBody("S1", TheCompleteStack)),
   Put(EmptyStore, OutputKey("own", "S1"), JGarbage),
   Put(EmptyStore, OutputKey("E", "S1"), OutputBody("S2", TheCompleteStack)),
   Put(EmptyStore, OutputKey("own", "S1"),
       JObj([n \in {"S1"} |->
               JObj([k \in {"StackName", "StackId"} |->
                       JStr(IF k = "StackName" THEN "S1" ELSE TheStackId)])]))}

\* the action state machine is not part of an invocation of the workflow lambda
ActionIdle ==
  /\ sm = "EndState"
  /\ ev = NoObject
  /\ ev0 = NoObject
  /\ hpc = "idle"
  /\ updInput = NoObject
  /\ log = <<>>
  /\ waits = 0
  /\ runs = 0
  /\ outcome = "succeeded"
  /\ error = <<>>

WorkflowStarts(inputs) ==
  /\ winputs \in inputs
  /\ wevent = NoObject
  /\ wpc = "idle"
  /\ wstates = None
  /\ wkey = UNDEF
  /\ wdata = <<>>
  /\ wresults = <<>>
  /\ wlog = <<>>

\* a Parallel node of the one branch b, then the bare shape of b, under one name
CollapsePairs ==
  {<<InitialEvent(e, p), InitialEvent(e, q)>> :
     e \in ExecutionNames,
     <<p, q>> \in UNION {AsInput(ParallelNode(UNDEF, Some(<<b>>))) \X
                          AsInput(BareBranch(b.StartAt, b.States)) : b \in Branches}}

\* inputs that no task of the provider or the store takes part in
PlanInputs ==
  CollapsePairs \cup
  {<<InitialEvent(e, v)>> :
     e \in ExecutionNames,
     v \in {NoObject}
           \cup UNION {AsInput(ParallelNode(x, bs)) :
                         x \in {UNDEF, "own"},
                         bs \in {None, Some(<<>>)} \cup {Some(l) : l \in BranchLists}}}

\* also: a chain and a Parallel node of two branches whose Stack nodes have
\* reference parameters
TaskInputs ==
  {<<InitialEvent(e, v)>> : e \in ExecutionNames, v \in UNION {AsInput(n) : n \in TaskNodes}}
  \cup
  (LET referring ==
         [n \in StateNames |->
            IF n = "A"
            THEN Node("Stack", UNDEF,
                      StackData("Create", "S1", <<SuffixParameter, LiteralParameter>>),
                      None, FALSE, "B")
            ELSE Node("Stack", UNDEF, StackData("Create", "S1", <<PathParameter>>),
                      None, TRUE, UNDEF)]
   IN {<<InitialEvent("E", v)>> :
         v \in {BareBranch("A", Some(referring)),
                ParallelNode(UNDEF, Some(<<Branch("A", Some(referring)),
                                           Branch("A", Some(TwoStates))>>))}})

InitWorkflow ==
  /\ DriverIdle
  /\ ActionIdle
  /\ \/ /\ WorkflowStarts(PlanInputs)
        /\ wbucket = "callback-bucket"
        /\ cfn = NoObject
        /\ store = EmptyStore
     \/ /\ WorkflowStarts(TaskInputs)
        /\ wbucket \in {"callback-bucket", UNDEF}
        /\ cfn \in {NoObject, TheCompleteStack}
        /\ store \in Stores
  /\ bucket = wbucket

NextWorkflow ==
  \/ WfNoInput
  \/ WfPass
  \/ WfStack
  \/ WfParallelNoBranches
  \/ WfParallelOne
  \/ WfParallelMany
  \/ WfDefault
  \/ SerialStep

SpecWorkflow == InitWorkflow /\ [][NextWorkflow]_vars

(***************************************************************************)
(* Claims about the workflow lambda                                        *)
(***************************************************************************)
\* the event of the invocation that is about to end, and what it ends with
EndingEvent == IF wpc = "idle" THEN Head(winputs) ELSE wevent
Ends == wresults' # wresults
EndResult == wresults'[Len(wresults')]

\* the branch serial is given for an input: the only branch of a Parallel node,
\* or the input itself
GivenBranch(event) ==
  LET origin == OriginInput(event)
  IN IF origin.Type = "Parallel"
     THEN origin.Branches.v[1]
     ELSE Branch(origin.StartAt, origin.States)

\* the state n hops of Next after k, UNDEF when the chain ends before: at a
\* state that has End = true or has no Next
RECURSIVE Hop(_, _, _)
Hop(states, k, n) ==
  IF n = 0 THEN k
  ELSE IF k \notin DOMAIN states \/ states[k].End \/ states[k].Next = UNDEF THEN UNDEF
  ELSE Hop(states, states[k].Next, n - 1)

\* StartAt and every Next name a state of the branch, and no chain of Next
\* comes back to where it started
WellFormed(b) ==
  /\ b.States.present
  /\ b.StartAt \in DOMAIN b.States.v
  /\ \A k \in DOMAIN b.States.v :
       /\ b.States.v[k].Next # UNDEF => b.States.v[k].Next \in DOMAIN b.States.v
       /\ \A n \in 1..Cardinality(DOMAIN b.States.v) : Hop(b.States.v, k, n) # k

\* the names from k on, following Next up to the first state that has End or
\* has no Next
RECURSIVE Walk(_, _)
Walk(states, k) ==
  IF states[k].End \/ states[k].Next = UNDEF
  THEN <<k>>
  ELSE <<k>> \o Walk(states, states[k].Next)

\* a state but for its ExecutionName
Unstamped(state) == [state EXCEPT !.ExecutionName = UNDEF]

\* C5: for a well-formed branch serial returns Type 'Serial' whose Data is
\* exactly the states on the walk from StartAt along Next, in that order, up to
\* and including the first state with End = true or without Next; until then
\* the list it holds is a proper prefix of that walk.
C5_SerialListsTheWalk ==
  [][LET b == GivenBranch(IF wpc = "serial" THEN wevent ELSE wevent')
         walk == Walk(b.States.v, b.StartAt)
         Returned ==
           (wpc = "serial" /\ Ends /\ WellFormed(b)) =>
             (/\ ~EndResult.failed
              /\ EndResult.ret.Type = "Serial"
              /\ Len(EndResult.ret.Data) = Len(walk)
              /\ \A i \in DOMAIN walk :
                   Unstamped(EndResult.ret.Data[i]) = Unstamped(b.States.v[walk[i]]))
         Underway ==
           (wpc' = "serial" /\ WellFormed(b)) =>
             (/\ Len(wdata') < Len(walk)
              /\ \A i \in DOMAIN wdata' :
                   Unstamped(wdata'[i]) = Unstamped(b.States.v[walk[i]]))
     IN Returned /\ Underway]_vars

\* the walk stopped at a state that has End = true and a Next as well, and a
\* state of the branch was left out
C5_Witness ==
  /\ wresults # <<>>
  /\ ~wresults[1].failed
  /\ wresults[1].ret.Type = "Serial"
  /\ Len(wresults[1].ret.Data) = 2
  /\ wresults[1].ret.Data[1].Next = "B"
  /\ wresults[1].ret.Data[2].End
  /\ wresults[1].ret.Data[2].Next = "A"

\* C6: serial never visits a state name twice: the states it has listed are
\* never more than the branch has states, the invocation ending with an error
\* when the walk comes back to a name.
C6_SerialNeverRevisits ==
  (wpc = "serial" /\ wstates.present) => Len(wdata) <= Cardinality(DOMAIN wstates.v)

\* C8: a Parallel node of the one branch b, and the bare shape of b, handled
\* under one execution name, come to the same result: the same Serial plan
\* with the same nodes, order and stamps, or the same error.
C8_SingleBranchCollapses ==
  Len(wresults) = 2 =>
    /\ wresults[1] = wresults[2]
    /\ ~wresults[1].failed => wresults[1].ret.Type = "Serial"

C8_Witness ==
  /\ Len(wresults) = 2
  /\ ~wresults[2].failed
  /\ Len(wresults[2].ret.Data) = 2
  /\ wresults[2].ret.Data[1].ExecutionName = "E"
  /\ wresults[2].ret.Data[2].ExecutionName = "own"

\* the input is a Parallel node of two or more branches that all have States
ManyBranches(event) ==
  /\ event.Data.Input.value # NoObject
  /\ OriginInput(event).Type = "Parallel"
  /\ OriginInput(event).Branches.present
  /\ Len(OriginInput(event).Branches.v) >= 2
  /\ \A i \in DOMAIN OriginInput(event).Branches.v :
       OriginInput(event).Branches.v[i].States.present

\* C9: for a Parallel node of two or more branches the handler returns Type
\* 'Parallel' whose Data is the branch list of the input: as many branches in
\* the same order, each with its StartAt, its state names and every state as
\* it came but for ExecutionName, and every state that came without an
\* ExecutionName carries the name of the execution.
C9_ParallelPlanKeepsBranches ==
  [][(wpc = "idle" /\ Ends /\ ManyBranches(Head(winputs))) =>
       LET given == OriginInput(Head(winputs)).Branches.v
           name == CurExecutionName(Head(winputs))
       IN /\ ~EndResult.failed
          /\ EndResult.ret.Type = "Parallel"
          /\ Len(EndResult.ret.Data) = Len(given)
          /\ \A i \in DOMAIN given :
               LET out == EndResult.ret.Data[i]
               IN /\ out.StartAt = given[i].StartAt
                  /\ DOMAIN out.States.v = DOMAIN given[i].States.v
                  /\ \A k \in DOMAIN given[i].States.v :
                       /\ Unstamped(out.States.v[k]) = Unstamped(given[i].States.v[k])
                       /\ given[i].States.v[k].ExecutionName = UNDEF =>
                            out.States.v[k].ExecutionName = name
    ]_vars

C9_Witness ==
  /\ wresults # <<>>
  /\ ~wresults[1].failed
  /\ wresults[1].ret.Type = "Parallel"
  /\ Len(wresults[1].ret.Data) = 2
  /\ wresults[1].ret.Data[2].States.v["A"].ExecutionName = "E"
  /\ wresults[1].ret.Data[2].States.v["B"].ExecutionName = "own"
  /\ wresults[1].ret.Data[2].States.v["A"].Next = "B"

\* the branches an input holds: those of a Parallel node, or the input itself
\* when it is a bare branch
BranchesOf(origin) ==
  CASE origin.Type = "Parallel" ->
         IF origin.Branches.present
         THEN {origin.Branches.v[i] : i \in DOMAIN origin.Branches.v}
         ELSE {}
    [] origin.Type \in {"Stack", "Pass"} -> {}
    [] OTHER -> {Branch(origin.StartAt, origin.States)}

\* StartAt, or the Next of some state, names no state of the branch
NamesNoState(b) ==
  /\ b.States.present
  /\ \/ b.StartAt \notin DOMAIN b.States.v
     \/ \E k \in DOMAIN b.States.v :
          b.States.v[k].Next # UNDEF /\ b.States.v[k].Next \notin DOMAIN b.States.v

\* the fields whose absence no walk is needed to see
FieldMissing(event) ==
  \/ event.Data.Input.value = NoObject
  \/ /\ event.Data.Input.value # NoObject
     /\ LET origin == OriginInput(event)
        IN \/ origin.Type \in {"Stack", "Pass"} /\ origin.Data = NoObject
           \/ origin.Type = "Parallel" /\ BranchesOf(origin) = {}
           \/ origin.Type \notin {"Stack", "Pass", "Parallel"} /\ ~origin.States.present

\* the invocation ends with the one error and returns nothing
FailsAsInputError ==
  /\ EndResult.failed
  /\ EndResult.err = MSG_WORKFLOW_FAILED
  /\ EndResult.ret = NoObject

RECURSIVE WalkLeavesBranch(_, _, _)
WalkLeavesBranch(states, k, seen) ==
  IF k \notin DOMAIN states THEN TRUE
  ELSE IF k \in seen \/ states[k].End \/ states[k].Next = UNDEF THEN FALSE
  ELSE WalkLeavesBranch(states, states[k].Next, seen \cup {k})

\* the input is linearized (a bare branch, or a Parallel node of one branch)
\* and the walk from StartAt leaves the branch
LinearizedWalkLeaves(event) ==
  /\ event.Data.Input.value # NoObject
  /\ LET origin == OriginInput(event)
     IN /\ origin.Type \notin {"Stack", "Pass"}
        /\ Cardinality(BranchesOf(origin)) = 1
        /\ origin.Type = "Parallel" => Len(origin.Branches.v) = 1
        /\ GivenBranch(event).States.present
        /\ WalkLeavesBranch(GivenBranch(event).States.v, GivenBranch(event).StartAt, {})

ExecutionName(i) ==
  <<"E", "E-2", "E-3", "E-4", "E-5", "E-6", "E-7", "E-8", "E-9", "E-10">>[i]

Execution(i, input, parent) ==
  [name |-> ExecutionName(i), input |-> input, parent |-> parent,
   pc |-> "InputTask", out |-> NoObject]

\* an item of a Map as the Data of a self-continuation: a branch has no Type
AsOrigin(item) ==
  IF "Type" \in DOMAIN item THEN item ELSE BareBranch(item.StartAt, item.States)

\* the executions the Map of execution i has started
Children(i) == {j \in DOMAIN dexecs : dexecs[j].parent = i}

SetExecution(i, pc, out) ==
  dexecs' = [dexecs EXCEPT ![i].pc = pc, ![i].out = out]

\* InputTask: the workflow lambda is invoked with the execution's name and input
DInputTask ==
  \E i \in DOMAIN dexecs :
    /\ dexecs[i].pc = "InputTask"
    /\ wpc = "idle" /\ winputs = <<>> /\ wresults = <<>>
    /\ winputs' = <<InitialEvent(dexecs[i].name, dexecs[i].input)>>
    /\ SetExecution(i, "InputTask.invoked", NoObject)
    /\ UNCHANGED <<wbucket, wevent, wpc, wstates, wkey, wdata, wresults, wlog,
                   ddispatched, actionVars>>

\* InputTask, outputPath '$.Payload': the lambda's result, or the task fails
DInputTaskReturn ==
  \E i \in DOMAIN dexecs :
    /\ dexecs[i].pc = "InputTask.invoked"
    /\ wpc = "idle" /\ winputs = <<>> /\ wresults # <<>>
    /\ IF wresults[1].failed
       THEN SetExecution(i, "Failed", NoObject)
       ELSE SetExecution(i, "TypeChoice", wresults[1].ret)
    /\ wresults' = <<>>
    /\ UNCHANGED <<wbucket, winputs, wevent, wpc, wstates, wkey, wdata, wlog,
                   ddispatched, actionVars>>

\* where TypeChoice sends a result
TypeChoiceTarget(result) ==
  CASE result.Type = "Stack" -> "StackExecution"
    [] result.Type = "Serial" -> "SerialMap"
    [] result.Type = "Parallel" -> "ParallelMap"
    [] OTHER -> "Pass"

\* TypeChoice, outputPath '$.Data'
DTypeChoice ==
  \E i \in DOMAIN dexecs :
    /\ dexecs[i].pc = "TypeChoice"
    /\ SetExecution(i, TypeChoiceTarget(dexecs[i].out), dexecs[i].out.Data)
    /\ UNCHANGED <<ddispatched, workflowVars, actionVars>>

\* the input StackExecution starts the action state machine with
StackExecutionInput(data) ==
  [Action |-> data.Input.Action, Token |-> "token", Input |-> data.Input,
   ExecutionName |-> data.ExecutionName]

DStackExecution ==
  \E i \in DOMAIN dexecs :
    /\ dexecs[i].pc = "StackExecution"
    /\ ddispatched' = Append(ddispatched, StackExecutionInput(dexecs[i].out))
    /\ SetExecution(i, "StackExecution.started", dexecs[i].out)
    /\ UNCHANGED <<workflowVars, actionVars>>

\* the StackEvent 'Execute Task' receives: there is no Result yet
StackEventOf(input) ==
  [Action |-> input.Action, Input |-> input.Input,
   ExecutionName |-> input.ExecutionName, Result |-> NoObject]

\* a started run of the action state machine enters 'Execute Task'; the runs
\* are taken one after the other
DRunStarts ==
  \E i \in DOMAIN dexecs :
    /\ dexecs[i].pc = "StackExecution.started"
    /\ \A j \in DOMAIN dexecs : dexecs[j].pc # "StackExecution.running"
    /\ SetExecution(i, "StackExecution.running", dexecs[i].out)
    /\ sm' = "Execute Task"
    /\ ev' = StackEventOf(StackExecutionInput(dexecs[i].out))
    /\ ev0' = ev'
    /\ hpc' = "idle"
    /\ updInput' = NoObject
    /\ log' = <<>>
    /\ waits' = 0
    /\ outcome' = "running"
    /\ error' = <<>>
    /\ UNCHANGED <<cfn, store, bucket, runs, ddispatched, workflowVars>>

\* a StackExecution that does not wait for the run it started (REQUEST_RESPONSE)
DStackExecutionEndsMutNoWait ==
  \E i \in DOMAIN dexecs :
    /\ dexecs[i].pc = "StackExecution.running"
    /\ SetExecution(i, "Succeeded", dexecs[i].out)
    /\ UNCHANGED <<ddispatched, workflowVars, actionVars>>

\* RUN_JOB: the task ends as the run of the action state machine ends
DStackExecutionEnds ==
  \E i \in DOMAIN dexecs :
    /\ dexecs[i].pc = "StackExecution.running"
    /\ sm \in {"EndState", "Failed"}
    /\ SetExecution(i, IF sm = "EndState" THEN "Succeeded" ELSE "Failed", dexecs[i].out)
    /\ UNCHANGED <<ddispatched, workflowVars, actionVars>>

\* the Map of execution i starts SerialCallSelf or ParallelCallSelf for its
\* next item
\* a Map that hands every execution its first item
StartCallSelfMutFirstItem(i) ==
  /\ Len(dexecs) < MaxExecutions
  /\ Cardinality(Children(i)) < Len(dexecs[i].out)
  /\ dexecs' = Append(dexecs, Execution(Len(dexecs) + 1, CallSelf(AsOrigin(dexecs[i].out[1])), i))
  /\ UNCHANGED <<ddispatched, workflowVars, actionVars>>

StartCallSelf(i) ==
  /\ Len(dexecs) < MaxExecutions
  /\ Cardinality(Children(i)) < Len(dexecs[i].out)
  /\ dexecs' = Append(dexecs,
                      Execution(Len(dexecs) + 1,
                                CallSelf(AsOrigin(dexecs[i].out[Cardinality(Children(i)) + 1])),
                                i))
  /\ UNCHANGED <<ddispatched, workflowVars, actionVars>>

DSerialMapMutNoWait ==
  \E i \in DOMAIN dexecs :
    /\ dexecs[i].pc = "SerialMap"
    /\ StartCallSelf(i)

\* SerialMap, maxConcurrency 1: the next item starts when the one before is done
DSerialMap ==
  \E i \in DOMAIN dexecs :
    /\ dexecs[i].pc = "SerialMap"
    /\ \A j \in Children(i) : dexecs[j].pc = "Succeeded"
    /\ StartCallSelf(i)

\* maxConcurrency of ParallelMap
ParallelMaxConcurrency == 40

DParallelMap ==
  \E i \in DOMAIN dexecs :
    /\ dexecs[i].pc = "ParallelMap"
    /\ \A j \in Children(i) : dexecs[j].pc # "Failed"
    /\ Cardinality({j \in Children(i) : dexecs[j].pc # "Succeeded"}) < ParallelMaxConcurrency
    /\ StartCallSelf(i)

\* a Map ends when every item is done, and fails when one of them fails
DMapEnds ==
  \E i \in DOMAIN dexecs :
    /\ dexecs[i].pc \in {"SerialMap", "ParallelMap"}
    /\ IF \E j \in Children(i) : dexecs[j].pc = "Failed"
       THEN SetExecution(i, "Failed", dexecs[i].out)
       ELSE /\ Cardinality(Children(i)) = Len(dexecs[i].out)
            /\ \A j \in Children(i) : dexecs[j].pc = "Succeeded"
            /\ SetExecution(i, "Succeeded", dexecs[i].out)
    /\ UNCHANGED <<ddispatched, workflowVars, actionVars>>

DPass ==
  \E i \in DOMAIN dexecs :
    /\ dexecs[i].pc = "Pass"
    /\ SetExecution(i, "Succeeded", dexecs[i].out)
    /\ UNCHANGED <<ddispatched, workflowVars, actionVars>>

(***************************************************************************)
(* Logical runs of the workflow state machine                              *)
(***************************************************************************)
StackNode(x, end, next) == Node("Stack", x, TheStackData, None, end, next)
OneState(node) == Some([n \in {"A"} |-> node])

\* a Parallel node of one branch, and one of two branches, of one Stack each
NestedOne(x) == ParallelNode(x, Some(<<Branch("A", OneState(StackNode(x, TRUE, UNDEF)))>>))
NestedTwo(x) ==
  ParallelNode(x, Some(<<Branch("A", OneState(StackNode(x, TRUE, UNDEF))),
                         Branch("A", OneState(StackNode(UNDEF, FALSE, UNDEF)))>>))

\* a chain of two Stack nodes that ask for a1 and then for a2
ActionNode(action, end, next) ==
  Node("Stack", UNDEF, StackData(action, "S1", <<>>), None, end, next)
Chain(a1, a2) ==
  BareBranch("A", Some([n \in StateNames |->
                          IF n = "A" THEN ActionNode(a1, FALSE, "B")
                          ELSE ActionNode(a2, TRUE, UNDEF)]))

\* the inputs a root execution is started with
RootInputs ==
  {NoObject, ParallelNode(UNDEF, None)}
  \cup {Chain("Create", "Update"), Chain("Update", "Upgrade"),
        Chain("Delete", "Create"), Chain("Restart", "Create")}
  \cup {BareBranch("A", Some([n \in StateNames |->
                                IF n = "A" THEN ActionNode(a, FALSE, "B")
                                ELSE Node("Stack", UNDEF,
                                          StackData("Update", "S1",
                                                    <<SuffixParameter, PathParameter>>),
                                          None, TRUE, UNDEF)])) :
          a \in {"Create", "Update"}}
  \cup {Node(t, x, TheStackData, None, FALSE, UNDEF) : t \in {"Stack", "Pass"}, x \in {UNDEF, "own"}}
  \cup {NestedOne(x) : x \in {UNDEF, "own"}}
  \cup {NestedTwo(x) : x \in {UNDEF, "own"}}
  \cup {BareBranch("A", OneState([p EXCEPT !.End = TRUE])) :
          p \in {NestedOne(UNDEF), NestedTwo(UNDEF), NestedOne("own")}}
  \cup {BareBranch("A", Some([n \in StateNames |->
                                IF n = "A" THEN StackNode(UNDEF, FALSE, "B")
                                ELSE [NestedTwo(UNDEF) EXCEPT !.End = TRUE]]))}

InitDriver ==
  /\ ActionIdle
  /\ WorkflowStarts({<<>>})
  /\ wbucket = "callback-bucket"
  /\ bucket \in {"callback-bucket", UNDEF}
  /\ cfn \in {NoObject, TheCompleteStack}
  /\ store = EmptyStore
  /\ dexecs \in {<<Execution(1, input, 0)>> : input \in RootInputs}
  /\ ddispatched = <<>>

NextDriver ==
  \/ DInputTask
  \/ DInputTaskReturn
  \/ DTypeChoice
  \/ DStackExecution
  \/ DRunStarts
  \/ DStackExecutionEnds
  \/ CreateStack
  \/ UpdateStack
  \/ UpgradeStack
  \/ DoUpdate
  \/ DeleteStack
  \/ DescribeStack
  \/ Callback
  \/ ActionTypeError
  \/ EndChoice
  \/ Wait15
  \/ ProgressChoice
  \/ ProviderProgress
  \/ DSerialMap
  \/ DParallelMap
  \/ DMapEnds
  \/ DPass
  \/ WfNoInput
  \/ WfPass
  \/ WfStack
  \/ WfParallelNoBranches
  \/ WfParallelOne
  \/ WfParallelMany
  \/ WfDefault
  \/ SerialStep

SpecDriver == InitDriver /\ [][NextDriver]_vars

\* a Parallel node of two branches: in one a Stack node that refers to outputs
\* of S1, alone (StartAt 'B') or after the node that creates S1 (StartAt 'A');
\* in the other a Pass node for S1
ParallelInputs ==
  {ParallelNode(UNDEF,
                Some(<<Branch(a, Some([n \in StateNames |->
                                         IF n = "A" THEN ActionNode("Create", FALSE, "B")
                                         ELSE Node("Stack", UNDEF,
                                                   StackData("Update", "S1",
                                                             <<SuffixParameter, PathParameter>>),
                                                   None, TRUE, UNDEF)])),
                       Branch("A", OneState(Node("Pass", UNDEF, TheStackData,
                                                 None, TRUE, UNDEF)))>>)) :
     a \in {"A", "B"}}

InitParallel ==
  /\ ActionIdle
  /\ WorkflowStarts({<<>>})
  /\ wbucket = "callback-bucket"
  /\ bucket \in {"callback-bucket", UNDEF}
  /\ cfn \in {NoObject, TheCompleteStack}
  /\ store = EmptyStore
  /\ dexecs \in {<<Execution(1, input, 0)>> : input \in RootInputs \cup ParallelInputs}
  /\ ddispatched = <<>>

\* the workflow state machine, also with branches that run side by side
SpecParallel == InitParallel /\ [][NextDriver]_vars

\* no node of the root's input carries an ExecutionName of its own
RECURSIVE Unnamed(_)
Unnamed(origin) ==
  IF origin = NoObject THEN TRUE
  ELSE /\ origin.ExecutionName = UNDEF
       /\ origin.Branches.present =>
            \A i \in DOMAIN origin.Branches.v :
              origin.Branches.v[i].States.present =>
                \A k \in DOMAIN origin.Branches.v[i].States.v :
                  Unnamed(origin.Branches.v[i].States.v[k])
       /\ origin.States.present =>
            \A k \in DOMAIN origin.States.v : Unnamed(origin.States.v[k])

\* C7: in a run whose root execution is named E and whose input has no node
\* with an ExecutionName of its own, every input StackExecution starts the
\* action state machine with carries ExecutionName E, whatever execution of
\* the run starts it.
C7_DispatchedCarryRootName ==
  Unnamed(dexecs[1].input) =>
    \A d \in DOMAIN ddispatched : ddispatched[d].ExecutionName = dexecs[1].name

(***************************************************************************)
(* Claims about the workflow state machine and the runs it starts          *)
(***************************************************************************)
\* an execution is started in this step, for an item of execution p's Map
StartsFor(p) ==
  /\ Len(dexecs') = Len(dexecs) + 1
  /\ dexecs'[Len(dexecs')].parent = p

\* the executions of p's items that are neither done nor failed, after the step
InProgressAfter(p) ==
  {j \in DOMAIN dexecs' :
     dexecs'[j].parent = p /\ dexecs'[j].pc \notin {"Succeeded", "Failed"}}

\* C11: the nodes of a Serial plan are dispatched one at a time in list order:
\* the execution for a node starts only when the executions for all nodes
\* before it have succeeded, an execution that dispatched a stack succeeds only
\* when the run of the action state machine it started has reached EndState
\* (after Callback, or with Action End), and no two nodes of one plan are in
\* progress together.
C11_SerialPlanOneAtATime ==
  [][LET InOrder ==
           \A p \in DOMAIN dexecs :
             (dexecs[p].pc = "SerialMap" /\ StartsFor(p)) =>
               (/\ \A j \in Children(p) : dexecs[j].pc = "Succeeded"
                /\ dexecs'[Len(dexecs')].input =
                     CallSelf(AsOrigin(dexecs[p].out[Cardinality(Children(p)) + 1])))
         RunEnded ==
           \A j \in DOMAIN dexecs :
             (dexecs[j].pc \in {"StackExecution", "StackExecution.started",
                                "StackExecution.running"}
              /\ dexecs'[j].pc = "Succeeded") =>
               (/\ sm = "EndState"
                /\ outcome = "succeeded"
                /\ ev.Input = dexecs[j].out.Input
                /\ ev.Action \in {"Callback", "End"})
         OneAtATime ==
           \A p \in DOMAIN dexecs' :
             dexecs'[p].pc = "SerialMap" => Cardinality(InProgressAfter(p)) <= 1
     IN InOrder /\ RunEnded /\ OneAtATime]_vars

\* the second node of a plan was started after the run for the first wrote
\* its record and ended
C11_Witness ==
  \E p \in DOMAIN dexecs :
    /\ dexecs[p].pc = "SerialMap"
    /\ Cardinality(Children(p)) = 2
    /\ \E j \in Children(p) :
         /\ dexecs[j].pc = "Succeeded"
         /\ Len(ddispatched) >= 1
         /\ dexecs[j].out.Input = ddispatched[1].Input
    /\ store # EmptyStore

\* C12: when the Callback Task of a run is handed a record whose status ends
\* in 'FAILED', the record is persisted under the run's key (unless the store
\* itself rejects the write), the run fails and so does the execution that
\* started it, and a Serial plan with a failed node starts no execution for a
\* later node.
C12_FailedStackPersistedAndChainStops ==
  [][LET FailedRecord ==
           /\ InTask("callback")
           /\ sm' # sm
           /\ Truthy(ev.ExecutionName)
           /\ ev.Result # NoObject
           /\ EndsWith(ev.Result.StackStatus, SUFFIX_FAILED)
         Persisted ==
           FailedRecord =>
             /\ sm' = "Failed"
             /\ \/ (log' # log /\ ~LastCall(log').ok)
                \/ /\ OutputKey(ev.ExecutionName, ev.Input.StackName) \in DOMAIN store'
                   /\ store'[OutputKey(ev.ExecutionName, ev.Input.StackName)]
                        = OutputBody(ev.Input.StackName, ev.Result)
         RunFails ==
           \A j \in DOMAIN dexecs :
             (dexecs[j].pc = "StackExecution.running" /\ sm = "Failed"
              /\ dexecs'[j].pc # dexecs[j].pc) => dexecs'[j].pc = "Failed"
         ChainStops ==
           \A p \in DOMAIN dexecs :
             (dexecs[p].pc = "SerialMap"
              /\ \E j \in Children(p) : dexecs[j].pc = "Failed") => ~StartsFor(p)
     IN Persisted /\ RunFails /\ ChainStops]_vars

(***************************************************************************)
(* Claims about the runs of the action state machine                       *)
(***************************************************************************)
\* the PutObject calls a run has issued
Puts(l) == Cardinality({i \in DOMAIN l : l[i].op = "PutObject"})

\* a run started to create, update, upgrade or delete a stack, by a function
\* that knows the bucket and with an execution name
LifecycleRun ==
  /\ bucket # UNDEF
  /\ Truthy(ev0.ExecutionName)
  /\ ev0.Action \in {"Create", "Update", "Upgrade", "Delete"}

\* C13: a run started with Create, Update, Upgrade or Delete (bucket
\* configured, execution name not empty) issues at most one PutObject, and
\* issues it in the Callback Task, which always issues one; the run enters the
\* Callback Task only from a describe call that found the stack in a status
\* not ending in '_IN_PROGRESS', and the body written is that stack's record.
C13_OneWritePerRunAfterTerminalPoll ==
  [][LifecycleRun =>
       LET AtMostOnce == Puts(log') <= 1
           OnlyCallback ==
             (Puts(log') > Puts(log) \/ store' # store) => sm = "Callback Task"
           ExactlyOnce ==
             (sm = "Callback Task" /\ sm' # sm) =>
               /\ Puts(log) = 0
               /\ log' = Append(log, LastCall(log'))
               /\ LastCall(log').op = "PutObject"
               /\ LastCall(log').Key = OutputKey(ev0.ExecutionName, ev0.Input.StackName)
               /\ LastCall(log').Body = OutputBody(ev0.Input.StackName, ev.Result)
               /\ LastCall(log').ok =>
                    store' = Put(store, LastCall(log').Key, LastCall(log').Body)
           Observed ==
             (sm = "Describe Stack" /\ sm' = "Stack in progress?") =>
               /\ LastCall(log').op = "DescribeStacks"
               /\ LastCall(log').ok
               /\ ev'.Result = cfn
           AfterPoll ==
             (sm # "Callback Task" /\ sm' = "Callback Task") =>
               /\ sm = "Stack in progress?"
               /\ ev' = ev
               /\ LastCall(log).op = "DescribeStacks"
               /\ ~EndsWith(ev.Result.StackStatus, SUFFIX_IN_PROGRESS)
       IN AtMostOnce /\ OnlyCallback /\ ExactlyOnce /\ Observed /\ AfterPoll]_actionVars

\* a Create run polled twice and ended after its one write
C13_Witness ==
  /\ LifecycleRun
  /\ ev0.Action = "Create"
  /\ sm = "EndState"
  /\ waits = 2
  /\ Puts(log) = 1
  /\ LastCall(log).ok
  /\ store[LastCall(log).Key].v["S1"].v.StackStatus.v = CREATE_COMPLETE

\* C14: a Describe invocation that finds the stack returns Action Describe
\* when the status it found ends in '_IN_PROGRESS' and Action Callback
\* otherwise, with the Input and ExecutionName of the event it was given and
\* the record it found as Result; the choice 'Stack in progress?' sends the
\* output of 'Describe Stack' back to wait exactly when that Action is
\* Describe, and to the Callback Task exactly when it is Callback.
C14_DescribeActionAndChoiceAgree ==
  [][LET found == Lookup(cfn, LookupName(ev))
         Returned ==
           (InTask("describeStack") /\ sm' # sm /\ sm' # "Failed") =>
             /\ found # NoObject
             /\ ev'.Result = found
             /\ ev'.Input = ev.Input
             /\ ev'.ExecutionName = ev.ExecutionName
             /\ ev'.Action = (IF EndsWith(found.StackStatus, SUFFIX_IN_PROGRESS)
                              THEN "Describe" ELSE "Callback")
         Agrees ==
           (/\ sm = "Stack in progress?"
            /\ sm' # sm
            /\ IF log # <<>> THEN LastCall(log).op = "DescribeStacks" ELSE FALSE) =>
             /\ ev.Action \in {"Describe", "Callback"}
             /\ (sm' = "Wait 15 Seconds") <=> (ev.Action = "Describe")
             /\ (sm' = "Callback Task") <=> (ev.Action = "Callback")
     IN Returned /\ Agrees]_actionVars

\* Describe found the stack in progress and the choice sent the run back to
\* wait, after a wait already
C14_Witness ==
  /\ sm = "Wait 15 Seconds"
  /\ waits = 1
  /\ ev.Action = "Describe"
  /\ ev.Result = cfn
  /\ log # <<>>
  /\ LastCall(log).op = "DescribeStacks"
  /\ EndsWith(ev.Result.StackStatus, SUFFIX_IN_PROGRESS)

\* the event a mutating operation returns once the provider accepted its call
Accepted(status, id) ==
  /\ ev'.Action = "Describe"
  /\ ev'.Input = ev.Input
  /\ ev'.ExecutionName = ev.ExecutionName
  /\ ev'.Result.StackId = id
  /\ ev'.Result.StackName = ev.Input.StackName
  /\ ev'.Result.StackStatus = status
  /\ LastCall(log').ok
  /\ LastCall(log').StackName = ev.Input.StackName
  /\ LastCall(log').Parameters = ev.Input.Parameters

\* C15: when the provider accepts the call, Create returns Action Describe
\* with status CREATE_IN_PROGRESS, and Update and Upgrade with status
\* UPDATE_IN_PROGRESS; StackId is the id the provider holds for the stack,
\* StackName, Input and ExecutionName are the request's; the create call has
\* DisableRollback true and EnableTerminationProtection false and the
\* request's TemplateURL; every call of Update keeps the previous template and
\* has no TemplateURL, every call of Upgrade has the request's TemplateURL and
\* does not keep the previous template.
C15_MutatingOperationsOnSuccess ==
  [][LET Created ==
           (InTask("createStack") /\ sm' # sm /\ sm' # "Failed") =>
             /\ Accepted(CREATE_IN_PROGRESS, cfn'.StackId)
             /\ log' = Append(log, LastCall(log'))
             /\ LastCall(log').op = "CreateStack"
             /\ LastCall(log').DisableRollback
             /\ ~LastCall(log').EnableTerminationProtection
             /\ LastCall(log').TemplateURL = ev.Input.TemplateURL
         Updated ==
           (/\ sm \in Tasks /\ hpc = "doUpdate" /\ sm' # sm /\ sm' # "Failed") =>
             /\ ev.Action \in {"Update", "Upgrade"}
             /\ Accepted(UPDATE_IN_PROGRESS, cfn.StackId)
             /\ \A i \in DOMAIN log' :
                  /\ log'[i].op = "UpdateStack"
                  /\ log'[i].UsePreviousTemplate = (ev.Action = "Update")
                  /\ log'[i].TemplateURL =
                       (IF ev.Action = "Update" THEN UNDEF ELSE ev.Input.TemplateURL)
     IN Created /\ Updated]_actionVars

\* Create was accepted: the run is at 'End?' with the stack in creation
C15_Witness ==
  /\ sm = "End?"
  /\ ev0.Action = "Create"
  /\ ev.Action = "Describe"
  /\ ev.Result.StackStatus = CREATE_IN_PROGRESS
  /\ ev.Result.StackId = TheStackId
  /\ Len(log) = 1
  /\ log[1].op = "CreateStack"
  /\ log[1].DisableRollback

\* the calls of kind op among the calls l
CallsOf(l, op) == {i \in DOMAIN l : l[i].op = op}

\* C16: a Delete invocation whose describe call reports a stack that is not
\* in DELETE_COMPLETE issues, after the describe call, one
\* UpdateTerminationProtection call with EnableTerminationProtection false and,
\* when that call is accepted, one DeleteStack call, both with the reported
\* stack's id as StackName; when both are accepted it returns Action Describe
\* with status DELETE_IN_PROGRESS and that id; when the protection call is
\* rejected there is no DeleteStack call and the invocation fails with the
\* rejection's message.
C16_DeleteDisablesProtectionThenDeletes ==
  [][LET found == Lookup(cfn, LookupName(ev))
         calls == SubSeq(log', Len(log) + 1, Len(log'))
     IN (/\ InTask("deleteStack")
         /\ sm' # sm
         /\ ~ReportedGone
         /\ Len(log') > Len(log)
         /\ log'[Len(log) + 1].ok) =>
          /\ calls[1].op = "DescribeStacks"
          /\ Len(calls) >= 2
          /\ calls[2].op = "UpdateTerminationProtection"
          /\ ~calls[2].EnableTerminationProtection
          /\ calls[2].StackName = found.StackId
          /\ Cardinality(CallsOf(calls, "UpdateTerminationProtection")) = 1
          /\ IF calls[2].ok
             THEN /\ Len(calls) = 3
                  /\ calls[3].op = "DeleteStack"
                  /\ calls[3].StackName = found.StackId
                  /\ IF calls[3].ok
                     THEN /\ sm' = "End?"
                          /\ ev' = [Action |-> "Describe", Input |-> ev.Input,
                                    ExecutionName |-> ev.ExecutionName,
                                    Result |-> StackRec(found.StackId, ev.Input.StackName,
                                                        DELETE_IN_PROGRESS, UNDEFSTR)]
                     ELSE sm' = "Failed" /\ error' = calls[3].err.message
             ELSE /\ Len(calls) = 2
                  /\ sm' = "Failed"
                  /\ error' = calls[2].err.message
                  /\ cfn' = cfn]_actionVars

\* the protection call was rejected: the run failed without a delete call
C16_Witness ==
  /\ ev0.Action = "Delete"
  /\ sm = "Failed"
  /\ Len(log) = 2
  /\ log[1].op = "DescribeStacks" /\ log[1].ok
  /\ log[2].op = "UpdateTerminationProtection" /\ ~log[2].ok
  /\ cfn # NoObject
  /\ cfn.StackStatus = CREATE_COMPLETE

(***************************************************************************)
(* Claims about the resolution of parameters                               *)
(***************************************************************************)
\* the handler is entered with a Stack node that stackParametersResolve takes
\* up: it has Data, the function knows the bucket, the node has a name
EnteredState == pathExecutionName(OriginInput(Head(winputs)), CurExecutionName(Head(winputs)))
ResolveEntered ==
  /\ Entered
  /\ Head(winputs).Data.Input.value # NoObject
  /\ EnteredState.Type = "Stack"
  /\ EnteredState.Data # NoObject
  /\ wbucket # UNDEF
  /\ Truthy(EnteredState.ExecutionName)
  /\ wresults' # wresults

GivenParameters == EnteredState.Data.Input.Parameters
\* what the invocation that ends in this step comes to
Ended == wresults'[Len(wresults')]
ResolvedParameters == Ended.ret.Data.Input.Parameters

\* does the key end in a reference suffix, and does the value start with the
\* prefix of that suffix
HasSuffix(param) ==
  EndsWith(param.ParameterKey, <<DOT, "$">>) \/ EndsWith(param.ParameterKey, <<DOT, "#">>)
IsReference(param) ==
  \/ /\ EndsWith(param.ParameterKey, <<DOT, "$">>)
     /\ StartsWith(param.ParameterValue, <<"$", DOT>>)
  \/ /\ EndsWith(param.ParameterKey, <<DOT, "#">>)
     /\ StartsWith(param.ParameterValue, <<"#", DOT>>)

\* the stack a reference names, the key of its record, and the read the
\* invocation made for parameter i
Producer(param) == param.ParameterValue[3]
RecordKey(param) ==
  <<EnteredState.ExecutionName, "/", Producer(param), "/", "output.json">>
ReadOf(i) ==
  wlog'[Len(wlog) + Cardinality({j \in 1..i : IsReference(GivenParameters[j])})]

\* the document the read of parameter i brought, if it brought one
DocumentOf(i) ==
  IF ReadOf(i).ok /\ RecordKey(GivenParameters[i]) \in DOMAIN store
  THEN store[RecordKey(GivenParameters[i])]
  ELSE JGarbage

\* the Outputs of the producer's record in the document, if there are any
OutputsOf(i) ==
  LET doc == DocumentOf(i)
      name == Producer(GivenParameters[i])
  IN IF doc.t = "object"
     THEN IF name \in DOMAIN doc.v
          THEN IF "Outputs" \in DOMAIN doc.v[name].v
               THEN doc.v[name].v.Outputs.v
               ELSE <<>>
          ELSE <<>>
     ELSE <<>>

\* the positions of the outputs whose key ends with the suffix of parameter i
Matches(i) ==
  LET value == GivenParameters[i].ParameterValue
  IN {k \in DOMAIN OutputsOf(i) :
        EndsWith(OutputsOf(i)[k].v.OutputKey.v, SubSeq(value, 5, Len(value)))}

\* parameter i is a reference that finds nothing: no record, a failed read, a
\* body that is no JSON, a document without the producer or without Outputs,
\* or no output that matches
FindsNothing(i) ==
  LET param == GivenParameters[i]
  IN /\ IsReference(param)
     /\ IF EndsWith(param.ParameterKey, <<DOT, "#">>)
        THEN Matches(i) = {}
        ELSE \/ DocumentOf(i).t # "object"
             \/ JSONPath(Tail(param.ParameterValue), DocumentOf(i)) = <<>>

\* C17: an invocation for a Stack node with Data, a bucket and a name never
\* fails, whatever the reads for its reference parameters bring: it returns the
\* Stack node with as many parameters; a reference with no record, a failed
\* read, a body that is not JSON, a document without the producing stack or
\* without Outputs, or without a match has the empty string as value, under
\* the key without its suffix; a literal is as it was given; a reference that
\* finds a value has a value that is not empty.
C17_UnresolvedReferenceIsEmpty ==
  [][ResolveEntered =>
       /\ ~Ended.failed
       /\ Ended.ret.Type = "Stack"
       /\ Ended.ret.Data.Input.StackName = EnteredState.Data.Input.StackName
       /\ Len(ResolvedParameters) = Len(GivenParameters)
       /\ \A i \in DOMAIN GivenParameters :
            IF ~IsReference(GivenParameters[i])
            THEN ResolvedParameters[i] = GivenParameters[i]
            ELSE /\ ResolvedParameters[i].ParameterKey =
                      SubSeq(GivenParameters[i].ParameterKey, 1,
                             Len(GivenParameters[i].ParameterKey) - 2)
                 /\ (ResolvedParameters[i].ParameterValue = <<>>) <=> FindsNothing(i)]_vars

\* a reference that found nothing beside one that found its value
C17_Witness ==
  /\ wresults # <<>>
  /\ ~wresults[1].failed
  /\ wresults[1].ret.Type = "Stack"
  /\ Len(wlog) = 2
  /\ ~wlog[1].ok /\ wlog[2].ok
  /\ wresults[1].ret.Data.Input.Parameters =
       <<Parameter(<<"Vpc">>, <<>>), Parameter(<<"Table">>, <<"t-1">>)>>

\* C18: in the Stack node an invocation returns no parameter key ends in '.$'
\* or '.#': every parameter given with such a key is returned under the key
\* without the suffix, whatever its value is.
C18_NoReferenceSuffixSurvives ==
  [][ResolveEntered =>
       /\ ~Ended.failed
       /\ \A i \in DOMAIN ResolvedParameters :
            /\ ~HasSuffix(ResolvedParameters[i])
            /\ HasSuffix(GivenParameters[i]) =>
                 ResolvedParameters[i].ParameterKey =
                   SubSeq(GivenParameters[i].ParameterKey, 1,
                          Len(GivenParameters[i].ParameterKey) - 2)]_vars

\* C19: a parameter with a key ending in '.#' and a value '#.<stack>.<suffix>'
\* is returned under the key without '.#' with, as its value, the OutputValue
\* of the first output, in the order of the list, of <stack>'s record whose
\* OutputKey ends with <suffix>, whatever later outputs match as well; with no
\* such output the value is the empty string.
C19_SuffixReferenceTakesFirstMatch ==
  [][ResolveEntered =>
       \A i \in DOMAIN GivenParameters :
         (/\ EndsWith(GivenParameters[i].ParameterKey, <<DOT, "#">>)
          /\ StartsWith(GivenParameters[i].ParameterValue, <<"#", DOT>>)) =>
           /\ ~Ended.failed
           /\ ResolvedParameters[i].ParameterKey =
                SubSeq(GivenParameters[i].ParameterKey, 1,
                       Len(GivenParameters[i].ParameterKey) - 2)
           /\ ResolvedParameters[i].ParameterValue =
                (IF Matches(i) = {} THEN <<>>
                 ELSE LET first == CHOOSE k \in Matches(i) : \A m \in Matches(i) : k <= m
                      IN OutputsOf(i)[first].v.OutputValue.v)]_vars

\* two outputs of the record end with the suffix: the value is the first one's
C19_Witness ==
  /\ wresults # <<>>
  /\ ~wresults[1].failed
  /\ wresults[1].ret.Type = "Stack"
  /\ wresults[1].ret.Data.Input.Parameters = <<Parameter(<<"Table">>, <<"t-1">>), LiteralParameter>>
  /\ Len(wlog) = 1
  /\ wlog[1].ok
  /\ wlog[1].Key \in DOMAIN store
  /\ Cardinality({k \in DOMAIN store[wlog[1].Key].v["S1"].v.Outputs.v :
                    EndsWith(store[wlog[1].Key].v["S1"].v.Outputs.v[k].v.OutputKey.v, <<"Name">>)}) = 2

\* all that the path of parameter i selects in the document its read brought: the
\* document is {<stack>: record}, the path names <stack> first
SelectedBy(i) ==
  LET doc == DocumentOf(i)
      path == GivenParameters[i].ParameterValue
      name == Producer(GivenParameters[i])
  IN IF doc.t # "object" THEN <<>>
     ELSE IF name \notin DOMAIN doc.v THEN <<>>
     ELSE LET record == doc.v[name].v
          IN CASE path = <<"$", DOT, name, DOT, "Outputs", "[1]", DOT, "OutputValue">> ->
                    (IF "Outputs" \in DOMAIN record
                     THEN (IF Len(record.Outputs.v) >= 2
                           THEN <<record.Outputs.v[2].v.OutputValue.v>>
                           ELSE <<>>)
                     ELSE <<>>)
               [] path = <<"$", DOT, name, DOT, "Outputs", "[*]", DOT, "OutputValue">> ->
                    (IF "Outputs" \in DOMAIN record
                     THEN [k \in DOMAIN record.Outputs.v |-> record.Outputs.v[k].v.OutputValue.v]
                     ELSE <<>>)
               [] path = <<"$", DOT, name, DOT, "StackStatus">> ->
                    (IF "StackStatus" \in DOMAIN record
                     THEN <<record.StackStatus.v>>
                     ELSE <<>>)
               [] OTHER -> <<>>

\* C20: a parameter with a key ending in '.$' and a value '$.<stack>.<rest>'
\* is returned under the key without '.$' with, as its value, what the path
\* selects in the document stored for <stack> under the node's execution name,
\* the object {<stack>: record}; when the path selects nothing (or there is no
\* such document) the value is the empty string.
C20_PathReferenceTakesFirstMatch ==
  [][ResolveEntered =>
       \A i \in DOMAIN GivenParameters :
         (/\ EndsWith(GivenParameters[i].ParameterKey, <<DOT, "$">>)
          /\ StartsWith(GivenParameters[i].ParameterValue, <<"$", DOT>>)) =>
           /\ ~Ended.failed
           /\ ReadOf(i).op = "GetObject"
           /\ ReadOf(i).Key = RecordKey(GivenParameters[i])
           /\ ResolvedParameters[i].ParameterKey =
                SubSeq(GivenParameters[i].ParameterKey, 1,
                       Len(GivenParameters[i].ParameterKey) - 2)
           /\ ResolvedParameters[i].ParameterValue =
                (IF SelectedBy(i) = <<>> THEN <<>> ELSE SelectedBy(i)[1])]_vars

\* the path selected the values of both outputs of the record: the value is
\* the first
C20_Witness ==
  /\ wresults # <<>>
  /\ ~wresults[1].failed
  /\ wresults[1].ret.Type = "Stack"
  /\ wresults[1].ret.Data.Input.Parameters = <<Parameter(<<"Any">>, <<"t-1">>)>>
  /\ Len(wlog) = 1
  /\ wlog[1].ok
  /\ wlog[1].Key = <<"E", "/", "S1", "/", "output.json">>

(***************************************************************************)
(* Claims about what Callback writes and the resolver reads                *)
(***************************************************************************)
\* the last run of the action state machine ended with an accepted write of
\* the record ev.Result
CallbackWrote ==
  /\ ev # NoObject
  /\ sm = "EndState"
  /\ log # <<>>
  /\ IF log # <<>> THEN LastCall(log).op = "PutObject" /\ LastCall(log).ok ELSE FALSE

\* the value a reference has in the record Callback was given
ValueIn(record, param) ==
  IF EndsWith(param.ParameterKey, <<DOT, "#">>)
  THEN LET hits == {k \in DOMAIN record.Outputs :
                      EndsWith(record.Outputs[k].OutputKey,
                               SubSeq(param.ParameterValue, 5, Len(param.ParameterValue)))}
       IN IF hits = {} THEN <<>>
          ELSE record.Outputs[CHOOSE k \in hits : \A m \in hits : k <= m].OutputValue
  ELSE IF param.ParameterValue =
            <<"$", DOT, record.StackName, DOT, "Outputs", "[1]", DOT, "OutputValue">>
          /\ Len(record.Outputs) >= 2
       THEN record.Outputs[2].OutputValue
       ELSE <<>>

\* C21: when a Stack node with execution name e refers to an output of stack
\* S and the last run, for e and S, ended with Callback's accepted write, the
\* read the resolver makes has the key Callback wrote, the store holds under
\* that key the body Callback wrote, and, the read succeeding, the reference
\* resolves to the value held in the record Callback was given.
C21_CallbackWritesWhatResolverReads ==
  [][(ResolveEntered /\ CallbackWrote) =>
       \A i \in DOMAIN GivenParameters :
         (/\ IsReference(GivenParameters[i])
          /\ Producer(GivenParameters[i]) = ev.Input.StackName
          /\ EnteredState.ExecutionName = ev.ExecutionName) =>
           /\ ReadOf(i).op = "GetObject"
           /\ ReadOf(i).Key = LastCall(log).Key
           /\ LastCall(log).Key \in DOMAIN store
           /\ store[LastCall(log).Key] = LastCall(log).Body
           /\ ReadOf(i).ok =>
                ResolvedParameters[i].ParameterValue = ValueIn(ev.Result, GivenParameters[i])]_vars

\* the second node of a chain was dispatched with the values of the outputs
\* the first node's run wrote
C21_Witness ==
  /\ store # EmptyStore
  /\ Len(ddispatched) = 2
  /\ ddispatched[2].Input.Parameters =
       <<Parameter(<<"Table">>, <<"t-1">>), Parameter(<<"Queue">>, <<"q-123">>)>>

\* the key of a parameter without its two-character suffix
Stripped(param) == SubSeq(param.ParameterKey, 1, Len(param.ParameterKey) - 2)

\* C22: the parameter list an invocation returns for a Stack node is as long
\* as the list given, and position i of it comes from position i of the list
\* given: a parameter whose key does not end in '.$' or '.#' is there with the
\* same key and the same value, a reference is there under its key without
\* the suffix with the value its own read and its own path or suffix give.
C22_ResolutionKeepsLengthAndOrder ==
  [][ResolveEntered =>
       /\ ~Ended.failed
       /\ DOMAIN ResolvedParameters = DOMAIN GivenParameters
       /\ \A i \in DOMAIN GivenParameters :
            /\ ~HasSuffix(GivenParameters[i]) => ResolvedParameters[i] = GivenParameters[i]
            /\ ResolvedParameters[i].ParameterKey
                 \in {GivenParameters[i].ParameterKey, Stripped(GivenParameters[i])}
            /\ IsReference(GivenParameters[i]) =>
                 /\ ResolvedParameters[i].ParameterKey = Stripped(GivenParameters[i])
                 /\ ResolvedParameters[i].ParameterValue =
                      (IF EndsWith(GivenParameters[i].ParameterKey, <<DOT, "#">>)
                       THEN (IF Matches(i) = {} THEN <<>>
                             ELSE OutputsOf(i)[CHOOSE k \in Matches(i) :
                                                 \A m \in Matches(i) : k <= m].v.OutputValue.v)
                       ELSE (IF SelectedBy(i) = <<>> THEN <<>> ELSE SelectedBy(i)[1]))]_vars

\* a reference followed by a literal: both are where they were
C22_Witness ==
  /\ wresults # <<>>
  /\ ~wresults[1].failed
  /\ wresults[1].ret.Type = "Stack"
  /\ wresults[1].ret.Data.Input.Parameters =
       <<Parameter(<<"Status">>, CREATE_COMPLETE), LiteralParameter>>

\* the Data of the states of the branches given with the input
GivenData(origin) ==
  IF origin.Type = "Parallel"
  THEN UNION {{origin.Branches.v[i].States.v[k].Data : k \in DOMAIN origin.Branches.v[i].States.v} :
                i \in DOMAIN origin.Branches.v}
  ELSE {origin.States.v[k].Data : k \in DOMAIN origin.States.v}

\* C23: an invocation that returns a Serial or a Parallel plan issues no call
\* to the store and leaves the store as it is, and every node of the plan
\* has the Data, parameters included, of a state it was given; an invocation
\* for a Stack node issues one GetObject for each of its reference parameters,
\* in their order and with the key of the stack each names, and no other call.
C23_PlansDoNotResolve ==
  [][LET origin == OriginInput(IF wpc = "serial" THEN wevent ELSE Head(winputs))
         Planned ==
           (Ends /\ ~EndResult.failed /\ EndResult.ret.Type \in {"Serial", "Parallel"}) =>
             /\ wlog' = wlog
             /\ store' = store
             /\ IF EndResult.ret.Type = "Serial"
                THEN \A k \in DOMAIN EndResult.ret.Data :
                       EndResult.ret.Data[k].Data \in GivenData(origin)
                ELSE \A i \in DOMAIN EndResult.ret.Data :
                       \A k \in DOMAIN EndResult.ret.Data[i].States.v :
                         EndResult.ret.Data[i].States.v[k].Data
                           = origin.Branches.v[i].States.v[k].Data
         Dispatched ==
           ResolveEntered =>
             LET refs == {i \in DOMAIN GivenParameters : IsReference(GivenParameters[i])}
             IN /\ Len(wlog') = Len(wlog) + Cardinality(refs)
                /\ store' = store
                /\ \A i \in refs :
                     /\ ReadOf(i).op = "GetObject"
                     /\ ReadOf(i).Bucket = wbucket
                     /\ ReadOf(i).Key = RecordKey(GivenParameters[i])
     IN Planned /\ Dispatched]_vars

\* a Parallel plan was returned with its references as given, the store
\* holding the record they name and no read made
C23_Witness ==
  /\ wresults # <<>>
  /\ ~wresults[1].failed
  /\ wresults[1].ret.Type = "Parallel"
  /\ wresults[1].ret.Data[1].States.v["A"].Data.Input.Parameters
       = <<SuffixParameter, LiteralParameter>>
  /\ wlog = <<>>
  /\ <<"E", "/", "S1", "/", "output.json">> \in DOMAIN store

\* C24: an invocation for a Stack node with Data (bucket configured, a name
\* to go by) returns that node: Type 'Stack', ExecutionName and
\* Data.ExecutionName the name the node came with or, when it came with none,
\* the name of the execution; Region, StackName, TemplateURL, Action and Tags
\* of its Input, its End and its Next as given; the invocation ends there,
\* without a turn of serial.
C24_StackNodeIsReturnedNamed ==
  [][ResolveEntered =>
       LET given == OriginInput(Head(winputs))
           name == IF given.ExecutionName = UNDEF
                   THEN Head(winputs).Data.ExecutionName
                   ELSE given.ExecutionName
       IN /\ ~Ended.failed
          /\ Ended.ret.Type = "Stack"
          /\ Ended.ret.ExecutionName = name
          /\ Ended.ret.Data.ExecutionName = name
          /\ \A f \in {"Region", "StackName", "TemplateURL", "Action", "Tags"} :
               Ended.ret.Data.Input[f] = given.Data.Input[f]
          /\ Ended.ret.End = given.End
          /\ Ended.ret.Next = given.Next
          /\ Ended.ret.Branches = given.Branches
          /\ wpc' = "idle"
          /\ wdata' = <<>>
          /\ winputs' = Tail(winputs)]_vars

\* a node that came with a name of its own was returned under that name
C24_Witness ==
  /\ wresults # <<>>
  /\ winputs = <<>>
  /\ ~wresults[1].failed
  /\ wresults[1].ret.Type = "Stack"
  /\ wresults[1].ret.ExecutionName = "own"
  /\ wresults[1].ret.Data.ExecutionName = "own"
  /\ wresults[1].ret.Data.Input.StackName = "S1"

\* C25: when the execution has a non-empty name, every node of a Serial plan
\* and every state of the branches of a Parallel plan that an invocation
\* returns has a non-empty ExecutionName: its own if it came with a non-empty
\* one, the execution's otherwise, also when it came with the empty string.
C25_PlannedNodesAreNamed ==
  [][LET event == IF wpc = "serial" THEN wevent ELSE Head(winputs)
         name == CurExecutionName(event)
         Named(out, given) ==
           /\ Truthy(out.ExecutionName)
           /\ out.ExecutionName =
                (IF Truthy(given.ExecutionName) THEN given.ExecutionName ELSE name)
     IN (Ends /\ ~EndResult.failed /\ Truthy(name)) =>
          CASE EndResult.ret.Type = "Serial" ->
                 \A k \in DOMAIN EndResult.ret.Data :
                   \E n \in DOMAIN GivenBranch(event).States.v :
                     /\ Unstamped(EndResult.ret.Data[k]) = Unstamped(GivenBranch(event).States.v[n])
                     /\ Named(EndResult.ret.Data[k], GivenBranch(event).States.v[n])
            [] EndResult.ret.Type = "Parallel" ->
                 \A i \in DOMAIN EndResult.ret.Data :
                   \A k \in DOMAIN EndResult.ret.Data[i].States.v :
                     Named(EndResult.ret.Data[i].States.v[k],
                           OriginInput(event).Branches.v[i].States.v[k])
            [] OTHER -> TRUE]_vars

\* C26: in a run of the action state machine whose request has no
\* ExecutionName, or an empty one, or whose function has no bucket configured,
\* no provider call and no store call has been issued: each task failed on its
\* precondition first.
C26_NoCallWithoutPrecondition ==
  (bucket = UNDEF \/ ~Truthy(ev0.ExecutionName)) => log = <<>>

\* C27: a step that changes the Output Store, or issues a PutObject call, is
\* the task of a Callback request; and the task of a Describe request issues
\* exactly one call, a DescribeStacks, and leaves the stack and the Output Store
\* as they were, whether it fails or not.
C27_OnlyCallbackWrites ==
  [][LET issued == SubSeq(log', Len(log) + 1, Len(log'))
         InHandler == sm \in Tasks /\ (sm' # sm \/ hpc' # hpc \/ Len(log') > Len(log))
     IN /\ store' # store => (InHandler /\ ev.Action = "Callback")
        /\ (InHandler /\ \E i \in DOMAIN issued : issued[i].op = "PutObject")
             => ev.Action = "Callback"
        /\ (InHandler /\ ev.Action = "Describe")
             => /\ Len(issued) = 1
                /\ issued[1].op = "DescribeStacks"
                /\ cfn' = cfn
                /\ store' = store]_vars

\* a run polled the stack twice, the store untouched, before its Callback wrote
C27_Witness ==
  /\ ev0.Action = "Create"
  /\ Len(log) = 4
  /\ log[2].op = "DescribeStacks"
  /\ log[3].op = "DescribeStacks"
  /\ log[4].op = "PutObject" /\ log[4].ok
  /\ store # EmptyStore

\* C28: the DescribeStacks call of a Describe or Delete task names the stack by
\* the StackId of the request's Result when it has one, and by Input.StackName
\* otherwise; so every DescribeStacks call that follows an accepted CreateStack,
\* UpdateStack or DeleteStack call of the run names the stack by its id; and a
\* poll answered after the deletion completed finds the stack in
\* DELETE_COMPLETE, does not fail, and the run goes on to 'Callback Task'.
C28_PollsGoByTheSeededId ==
  [][LET issued == SubSeq(log', Len(log) + 1, Len(log'))
         Polls == sm \in Tasks /\ ev.Action \in {"Describe", "Delete"} /\ Len(issued) > 0
         Accepted1 == \E i \in DOMAIN log :
                        /\ log[i].op \in {"CreateStack", "UpdateStack", "DeleteStack"}
                        /\ log[i].ok
     IN /\ Polls =>
             /\ issued[1].op = "DescribeStacks"
             /\ issued[1].StackName =
                  (IF ev.Result = NoObject THEN ev.Input.StackName
                   ELSE IF ev.Result.StackId \in {UNDEF, ""} THEN ev.Input.StackName
                   ELSE ev.Result.StackId)
        /\ (Polls /\ Accepted1) =>
             /\ ev.Action = "Describe"
             /\ issued[1].StackName = TheStackId
             /\ issued[1].StackName # ev.Input.StackName
        /\ (Polls /\ Accepted1 /\ issued[1].ok /\ cfn.StackStatus = DELETE_COMPLETE) =>
             /\ sm' = "Stack in progress?"
             /\ outcome' = "running"
             /\ ev'.Action = "Callback"
             /\ ev'.Result.StackStatus = DELETE_COMPLETE
             /\ ProgressChoiceTarget(ev') = "Callback Task"]_vars

\* a Delete run that was started without a Result polled the deleted stack by
\* its id and is about to call back
C28_Witness ==
  /\ ev0.Action = "Delete" /\ ev0.Result = NoObject
  /\ sm = "Callback Task"
  /\ Len(log) >= 4
  /\ log[1].op = "DescribeStacks" /\ log[1].StackName = ev0.Input.StackName
  /\ log[3].op = "DeleteStack" /\ log[3].ok
  /\ LastCall(log).op = "DescribeStacks" /\ LastCall(log).StackName = TheStackId
  /\ ev.Result.StackStatus = DELETE_COMPLETE

\* C29: an invocation for a Pass node with Data (bucket configured, a non-empty
\* name) issues one DescribeStacks for the node's stack; if that finds the
\* stack, one PutObject of the described record at
\* <ExecutionName>/<StackName>/output.json, and then it returns the Pass node
\* itself, named, with Type, Data and End as given; if the stack cannot be
\* described it fails and writes nothing.
C29_PassDescribesWritesAndReturnsTheNode ==
  [][LET event == Head(winputs)
         given == OriginInput(event)
         name == IF given.ExecutionName = UNDEF \/ CurExecutionName(event) = ""
                 THEN CurExecutionName(event) ELSE given.ExecutionName
         issued == SubSeq(wlog', Len(wlog) + 1, Len(wlog'))
         Found == Lookup(cfn, given.Data.Input.StackName) # NoObject /\ issued[1].ok
     IN (/\ Entered
         /\ event.Data.Input.value # NoObject
         /\ given.Type = "Pass"
         /\ given.Data # NoObject
         /\ wbucket # UNDEF
         /\ Truthy(name)) =>
          /\ Len(issued) >= 1
          /\ issued[1].op = "DescribeStacks"
          /\ issued[1].StackName = given.Data.Input.StackName
          /\ ~Found => (Ended.failed /\ Len(issued) = 1 /\ store' = store)
          /\ Found =>
               /\ Len(issued) = 2
               /\ issued[2].op = "PutObject"
               /\ issued[2].Key = <<name, "/", given.Data.Input.StackName, "/", "output.json">>
               /\ issued[2].Body = OutputBody(given.Data.Input.StackName,
                                              Lookup(cfn, given.Data.Input.StackName))
               /\ issued[2].ok => (~Ended.failed /\ Ended.ret = [given EXCEPT !.ExecutionName = name])]_vars

\* C30: the run enters 'Describe Stack' only out of 'Wait 15 Seconds', each
\* time after one more pass through it; the wait leads nowhere but to
\* 'Describe Stack' and is entered only from the two choices, so two polls are
\* never adjacent and two waits never are; and a Describe request is handled
\* by 'Describe Stack', except as the request a run is started with.
C30_EveryPollFollowsOneWait ==
  [][LET Moves == sm' # sm IN
     /\ (Moves /\ sm' = "Describe Stack") =>
          (sm = "Wait 15 Seconds" /\ waits' = waits + 1)
     /\ (Moves /\ sm = "Wait 15 Seconds") => sm' = "Describe Stack"
     /\ (Moves /\ sm' = "Wait 15 Seconds") =>
          /\ sm \in {"End?", "Stack in progress?"}
          /\ waits' = waits
     /\ (Moves /\ sm = "Describe Stack") => sm' \in {"Stack in progress?", "Failed"}
     /\ (sm \in Tasks /\ ev.Action = "Describe" /\ Len(log') > Len(log)) =>
          \/ sm = "Describe Stack"
          \/ sm = "Execute Task" /\ ev0.Action = "Describe"]_vars

\* a Create run waited twice and polled twice, the stack still in progress
C30_Witness ==
  /\ ev0.Action = "Create"
  /\ waits = 2
  /\ sm = "Stack in progress?"
  /\ Len(log) = 3
  /\ log[1].op = "CreateStack"
  /\ log[2].op = "DescribeStacks" /\ log[3].op = "DescribeStacks"
  /\ ev.Action = "Describe"

(***************************************************************************)
(* One run of the action state machine to its end                          *)
(***************************************************************************)
InProgress(c) == c # NoObject /\ EndsWith(c.StackStatus, SUFFIX_IN_PROGRESS)

\* 'Wait 15 Seconds' always completes; the stack leaves its operation within
\* MaxPolls waits of the run, so a further wait finds it finished
WaitCompletes ==
  /\ sm = "Wait 15 Seconds"
  /\ waits < MaxPolls \/ (waits = MaxPolls /\ ~InProgress(cfn))
  /\ waits' = waits + 1
  /\ sm' = "Describe Stack"
  /\ UNCHANGED <<cfn, store, bucket, ev, ev0, hpc, updInput, log, runs, outcome, error, workflowVars, driverVars>>

\* the action function has timeout: Duration.seconds(15): an invocation that
\* is still re-issuing its update call when the time is up fails the task
MSG_TIMED_OUT == <<"Task timed out after 15.00 seconds">>

TaskTimedOut ==
  /\ sm \in Tasks /\ hpc = "doUpdate"
  /\ UpdateCalls(log) >= MaxUpdateCalls
  /\ Finish(Throw(MSG_TIMED_OUT, <<>>), cfn)
  /\ UNCHANGED updInput

EngineStep ==
  \/ CreateStack
  \/ UpdateStack
  \/ UpgradeStack
  \/ DoUpdate
  \/ TaskTimedOut
  \/ DeleteStack
  \/ DescribeStack
  \/ Callback
  \/ ActionTypeError
  \/ EndChoice
  \/ WaitCompletes
  \/ ProgressChoice

NextActionFair ==
  \/ EngineStep
  \/ ProviderProgress

\* every provider call returns and the engine takes its next step; the
\* provider finishes the operation in progress
SpecActionFair ==
  /\ InitAction
  /\ [][NextActionFair]_actionVars
  /\ WF_actionVars(EngineStep)
  /\ WF_actionVars(ProviderProgress)

\* C31: a run started with Create, Update, Upgrade or Delete comes to
\* 'EndState' or fails with an error; and it leaves the loop of 'Wait 15
\* Seconds', 'Describe Stack' and 'Stack in progress?' only to 'Callback
\* Task' or by failing.
C31_RunEnds ==
  /\ (ev0.Action \in {"Create", "Update", "Upgrade", "Delete"})
       ~> (sm \in {"EndState", "Failed"} /\ outcome \in {"succeeded", "failed"})
  /\ [][LET Loop == {"Wait 15 Seconds", "Describe Stack", "Stack in progress?"}
        IN (sm \in Loop /\ sm' \notin Loop) => sm' \in {"Callback Task", "Failed"}]_vars

\* a Create run went twice round the loop and ended at 'EndState'
C31_Witness ==
  /\ ev0.Action = "Create"
  /\ waits >= 2
  /\ sm = "EndState"
  /\ outcome = "succeeded"
  /\ LastCall(log).op = "PutObject"

\* C32: a Delete task returns End, having issued its describe call and no
\* delete call, only when the stack is absent or in DELETE_COMPLETE; while the
\* stack exists, a describe call that fails does not make it return End.
C32_DeleteEndsOnlyWhenStackIsGone ==
  [][LET issued == SubSeq(log', Len(log) + 1, Len(log'))
     IN (/\ sm \in Tasks /\ hpc = "idle" /\ ev.Action = "Delete"
         /\ sm' = AfterTask(sm)
         /\ ev'.Action = "End") =>
          /\ Len(issued) = 1
          /\ issued[1].op = "DescribeStacks"
          /\ cfn = NoObject \/ cfn.StackStatus = DELETE_COMPLETE]_vars

\* C33: whatever Action a run was started with, the event 'Describe Stack' is
\* invoked with has Action Describe and the event 'Callback Task' is invoked
\* with has Action Callback.
C33_TasksGetTheirAction ==
  /\ sm = "Describe Stack" => ev.Action = "Describe"
  /\ sm = "Callback Task" => ev.Action = "Callback"

\* C34: the Callback Task of a run (the request named, a Result at hand) fails
\* the run when the status of the Result ends in 'FAILED'; with any other
\* status, the rollback statuses included, the record is persisted under the
\* run's key (unless the store itself rejects the write), the event is
\* returned as it was, the run ends at 'EndState' and the execution that
\* started the run succeeds, so that its Map goes on.
C34_CallbackRaisesOnFailedOnly ==
  [][LET InCallback ==
           /\ InTask("callback")
           /\ sm = "Callback Task"
           /\ sm' # sm
           /\ Truthy(ev.ExecutionName)
           /\ ev.Result # NoObject
         StatusFailed == EndsWith(ev.Result.StackStatus, SUFFIX_FAILED)
         PutRejected == log' # log /\ ~LastCall(log').ok
         Raises == (InCallback /\ StatusFailed) => (sm' = "Failed" /\ outcome' = "failed")
         Persists ==
           (InCallback /\ ~StatusFailed /\ ~PutRejected) =>
             /\ OutputKey(ev.ExecutionName, ev.Input.StackName) \in DOMAIN store'
             /\ store'[OutputKey(ev.ExecutionName, ev.Input.StackName)]
                  = OutputBody(ev.Input.StackName, ev.Result)
             /\ ev' = ev
             /\ sm' = "EndState"
             /\ outcome' = "succeeded"
         Continues ==
           \A j \in DOMAIN dexecs :
             (dexecs[j].pc = "StackExecution.running" /\ sm = "EndState"
              /\ dexecs'[j].pc # dexecs[j].pc) => dexecs'[j].pc = "Succeeded"
     IN Raises /\ Persists /\ Continues]_vars

\* the execution whose input the workflow lambda has in hand
Resolving(i) == dexecs[i].pc = "InputTask.invoked"
\* the earlier nodes of the chain the node of execution i belongs to: the
\* items its SerialMap started before it
EarlierInChain(i) ==
  IF dexecs[i].parent = 0 THEN {}
  ELSE IF dexecs[dexecs[i].parent].pc # "SerialMap" THEN {}
  ELSE {j \in Children(dexecs[i].parent) : j < i}

SiblingStacks(i) ==
  LET p == dexecs[i].parent
      q == IF p = 0 THEN 0 ELSE dexecs[p].parent
  IN IF q = 0 THEN {}
     ELSE IF dexecs[q].pc # "ParallelMap" THEN {}
     ELSE LET mine == Cardinality({c \in Children(q) : c <= p})
              items == dexecs[q].out
          IN {items[m].States.v[n].Data.Input.StackName :
                <<m, n>> \in {x \in (DOMAIN items) \X StateNames :
                                /\ x[1] # mine
                                /\ x[2] \in DOMAIN items[x[1]].States.v
                                /\ items[x[1]].States.v[x[2]].Type \in {"Stack", "Pass"}}}

\* C36: when a node of one branch of a Parallel node refers to an output of a
\* stack that a node of another branch handles, and the store answers the
\* read, the value it gets is the one the stack's record holds, whichever of
\* the two branches the Driver has taken first.
C36_SiblingReferenceIsScheduleFree ==
  [][ResolveEntered =>
       \A i \in DOMAIN dexecs : \A k \in DOMAIN GivenParameters :
         (/\ Resolving(i)
          /\ IsReference(GivenParameters[k])
          /\ Producer(GivenParameters[k]) \in SiblingStacks(i)
          /\ cfn # NoObject
          /\ IF ReadOf(k).ok THEN TRUE ELSE ReadOf(k).err.name = "NoSuchKey") =>
           ResolvedParameters[k].ParameterValue = ValueIn(cfn, GivenParameters[k])]_vars

\* the Actions of the Stack nodes on the paths of an input, in the order of
\* the walk: a Stack node is on its own path, a branch has the nodes from
\* StartAt along Next up to the first node with End or without Next, a
\* Parallel node has the paths of its branches; `fuel` bounds the walk
RECURSIVE PathActions(_, _)
RECURSIVE WalkActions(_, _, _)
PathActions(node, fuel) ==
  IF fuel = 0 \/ node = NoObject THEN <<>>
  ELSE IF "Type" \notin DOMAIN node
       THEN IF node.States.present THEN WalkActions(node.States.v, node.StartAt, fuel) ELSE <<>>
  ELSE CASE node.Type = "Stack" ->
              IF node.Data = NoObject THEN <<>> ELSE <<node.Data.Input.Action>>
         [] node.Type = "Parallel" ->
              IF node.Branches.present
              THEN LET RECURSIVE Over(_)
                       Over(m) == IF m = 0 THEN <<>>
                                  ELSE Over(m - 1) \o PathActions(node.Branches.v[m], fuel - 1)
                   IN Over(Len(node.Branches.v))
              ELSE <<>>
         [] node.Type = UNDEF ->
              IF node.States.present THEN WalkActions(node.States.v, node.StartAt, fuel) ELSE <<>>
         [] OTHER -> <<>>
WalkActions(states, key, fuel) ==
  IF fuel = 0 \/ key \notin DOMAIN states THEN <<>>
  ELSE PathActions(states[key], fuel - 1)
         \o (IF states[key].End \/ ~Truthy(states[key].Next) THEN <<>>
             ELSE WalkActions(states, states[key].Next, fuel - 1))

Times(seq, x) == Cardinality({k \in DOMAIN seq : seq[k] = x})
DispatchedActions == [k \in DOMAIN ddispatched |-> ddispatched[k].Action]

\* C37: the action state machine is never started more often for an Action
\* than Stack nodes on the paths of the root input ask for it (a state off the
\* path of its branch is never dispatched), and once the root execution has
\* succeeded every Stack node on a path has been dispatched exactly once.
C37_OnPathNodesDispatchedOnce ==
  LET path == PathActions(dexecs[1].input, 3 * MaxVisits)
  IN /\ \A a \in StackActions \cup {"Restart"} :
          Times(DispatchedActions, a) <= Times(path, a)
     /\ dexecs[1].pc = "Succeeded" =>
          /\ Len(ddispatched) = Len(path)
          /\ \A a \in StackActions \cup {"Restart"} :
               Times(DispatchedActions, a) = Times(path, a)

\* a Parallel run succeeded in which the branch started at 'B': its state 'A'
\* (Create) was stamped and dropped, its state 'B' (Update) dispatched once
C37_Witness ==
  /\ dexecs[1].input \in ParallelInputs
  /\ dexecs[1].pc = "Succeeded"
  /\ Len(dexecs) >= 3
  /\ dexecs[2].input.Data.StartAt = "B"
  /\ dexecs[2].input.Data.States.v["A"].ExecutionName = "E"
  /\ dexecs[2].input.Data.States.v["A"].Data.Input.Action = "Create"
  /\ DispatchedActions = <<"Update">>

\* C38: the Callback Task of a run the workflow started, its request named and
\* a Result at hand, does not fail on the precondition 'Callback bucket name
\* or execution name is undefined.': the function that runs it has the bucket;
\* and with a status that does not end in 'FAILED', the store accepting the
\* write, the run ends at 'EndState' with the record persisted.
C38_ActionFunctionHasTheBucket ==
  [][(/\ InTask("callback")
      /\ sm = "Callback Task"
      /\ sm' # sm
      /\ Truthy(ev.ExecutionName)
      /\ ev.Result # NoObject) =>
       /\ bucket # UNDEF
       /\ ~(sm' = "Failed" /\ error' = MSG_BUCKET)
       /\ (~EndsWith(ev.Result.StackStatus, SUFFIX_FAILED)
           /\ log' # log /\ LastCall(log').ok) =>
            /\ sm' = "EndState"
            /\ OutputKey(ev.ExecutionName, ev.Input.StackName) \in DOMAIN store']_vars

====
